---- MODULE Spec2Model ----
(***************************************************************************)
(* Model of the DORA metrics dashboard's calculation code:                 *)
(*   - timeUtils.ts          calculateBusinessHours                        *)
(*   - statistics (README)   mean, deviation, t-table, intervals, accuracy *)
(*   - doraCalculator        getRating, getTimeToDeployHours,              *)
(*                           calculateDORAMetrics                          *)
(*                                                                         *)
(* Conventions.                                                            *)
(*   Instants are minutes since a Monday 00:00, local time = UTC, no DST.  *)
(*   Durations are carried in minutes; the code's hour value is the        *)
(*   minute count divided by 60 (all modelled instants are minute aligned, *)
(*   so the millisecond difference divided by 3 600 000 is exactly that).  *)
(*   Statistics are carried in thousandths (the t-table has three          *)
(*   decimals); divisions and square roots round down to a thousandth.     *)
(***************************************************************************)
EXTENDS Integers, Sequences, FiniteSets, TLC

VARIABLES
  clkStart,      \* calculateBusinessHours: argument startDate
  clkEnd,        \* calculateBusinessHours: argument endDate
  clkHours,      \* calculateBusinessHours: returned value in minutes
  stValues,      \* calculateStatisticalSummary: argument values (hundredths)
  stLevel,       \* calculateStatisticalSummary: argument confidenceLevel
  stSummary,     \* calculateStatisticalSummary: returned StatisticalSummary
  accActual,     \* calculateAccuracyWithConfidence: argument actualValues
  accExpected,   \* calculateAccuracyWithConfidence: argument expectedValues
  accLevel,      \* calculateAccuracyWithConfidence: argument confidenceLevel
  accOutcome,    \* calculateAccuracyWithConfidence: how the call completed
  rtCycleBound,  \* rating of a deployment frequency: is a cycle selected
  rtValue,       \* rating of a deployment frequency: the frequency
  rtRating,      \* rating of a deployment frequency: the rating returned
  pc             \* "call" before the modelled call, "done" once it has returned

clockVars == <<clkStart, clkEnd, clkHours>>
statVars == <<stValues, stLevel, stSummary>>
accVars == <<accActual, accExpected, accLevel, accOutcome>>
rateVars == <<rtCycleBound, rtValue, rtRating>>

NULL == 0 - 1       \* an absent (undefined / null) timestamp, estimate or id

Max(a, b) == IF a >= b THEN a ELSE b
Min(a, b) == IF a <= b THEN a ELSE b

(***************************************************************************)
(* Bounds of the model                                                     *)
(***************************************************************************)
MaxClockDay == 8
MaxSampleLen == 3
MaxPairs == 2
MaxRatedCount == 20
MaxIssues == 3
MaxEstimated == 2
MaxEngineIssues == 2
MaxHistory == 2
MaxBacklog == 12
MaxSmallDf == 61
MaxWeeks == 10
MaxSessions == 3
MaxCalls == 3
MaxCacheClock == 1
MaxTimers == 2
MaxTicks == 2

(***************************************************************************)
(* Calendar                                                                *)
(***************************************************************************)
MinutesPerHour == 60
MinutesPerDay == 1440
WorkStartHour == 9
WorkEndHour == 17

At(day, hour, minute) == day * MinutesPerDay + hour * MinutesPerHour + minute

DayOf(t) == t \div MinutesPerDay

\* Date.prototype.getDay: 0 = Sunday .. 6 = Saturday; day 0 is a Monday
getDay(t) == (DayOf(t) + 1) % 7

\* Date.prototype.setHours(h, 0, 0, 0) on a copy of t
setHours(t, h) == DayOf(t) * MinutesPerDay + h * MinutesPerHour

\* current.setDate(current.getDate() + 1); current.setHours(0, 0, 0, 0)
NextMidnight(t) == (DayOf(t) + 1) * MinutesPerDay

\* one pass of the while loop's body: what the day of `current` adds
DayContributionNoGuard(current, start, end) ==
  LET dayOfWeek   == getDay(current)
      dayStart    == setHours(current, WorkStartHour)
      dayEnd      == setHours(current, WorkEndHour)
      periodStart == Max(start, dayStart)
      periodEnd   == Min(end, dayEnd)
  IN  IF dayOfWeek # 0 /\ dayOfWeek # 6
        THEN periodEnd - periodStart
        ELSE 0

DayContributionSaturday(current, start, end) ==
  LET dayOfWeek   == getDay(current)
      dayStart    == setHours(current, WorkStartHour)
      dayEnd      == setHours(current, WorkEndHour)
      periodStart == Max(start, dayStart)
      periodEnd   == Min(end, dayEnd)
  IN  IF dayOfWeek # 0
        THEN (IF periodStart < periodEnd THEN periodEnd - periodStart ELSE 0)
        ELSE 0

DayContribution(current, start, end) ==
  LET dayOfWeek   == getDay(current)
      dayStart    == setHours(current, WorkStartHour)
      dayEnd      == setHours(current, WorkEndHour)
      periodStart == Max(start, dayStart)
      periodEnd   == Min(end, dayEnd)
  IN  IF dayOfWeek # 0 /\ dayOfWeek # 6
        THEN (IF periodStart < periodEnd THEN periodEnd - periodStart ELSE 0)
        ELSE 0

RECURSIVE BusinessLoop(_, _, _, _)
BusinessLoop(current, start, end, totalMinutes) ==
  IF current < end
    THEN BusinessLoop(NextMidnight(current), start, end,
                      totalMinutes + DayContribution(current, start, end))
    ELSE totalMinutes

\* calculateBusinessHours(startDate, endDate), in minutes
calculateBusinessHours(startDate, endDate) ==
  BusinessLoop(startDate, startDate, endDate, 0)

(***************************************************************************)
(* Hours as the program holds them: IEEE-754 doubles                       *)
(*                                                                         *)
(* A positive double is [e |-> exponent of the leading bit, m |-> the 53   *)
(* bits of the significand, leading bit first]; its value is               *)
(* sum of m[i] * 2^(e - i + 1).  Zero is DZero.  Every operation rounds to *)
(* nearest, ties to even, as the JavaScript Number operations do.          *)
(***************************************************************************)
SignificandBits == 53

DZero == [e |-> 0, m |-> <<>>]

RECURSIVE Pow2(_)
Pow2(k) == IF k = 0 THEN 1 ELSE 2 * Pow2(k - 1)

\* the sum of two bit strings of one length, with the carry as leading bit
AddBits(a, b) ==
  LET n == Len(a)
      carry[i \in 1..(n + 1)] ==
        IF i = n + 1 THEN 0 ELSE (a[i] + b[i] + carry[i + 1]) \div 2
  IN  <<carry[1]>> \o [i \in 1..n |-> (a[i] + b[i] + carry[i + 1]) % 2]

\* a bit string with leading bit 1 and exponent e, rounded to a double
RoundToDouble(e, bits) ==
  LET n      == Len(bits)
      keep   == [i \in 1..SignificandBits |-> IF i <= n THEN bits[i] ELSE 0]
      round  == n > SignificandBits /\ bits[SignificandBits + 1] = 1
      sticky == \E i \in (SignificandBits + 2)..n : bits[i] = 1
      up     == round /\ (sticky \/ keep[SignificandBits] = 1)
      one    == [i \in 1..SignificandBits |-> IF i = SignificandBits THEN 1 ELSE 0]
      sum    == AddBits(keep, one)
  IN  IF ~up THEN [e |-> e, m |-> keep]
      ELSE IF sum[1] = 1 THEN [e |-> e + 1, m |-> SubSeq(sum, 1, SignificandBits)]
      ELSE [e |-> e, m |-> SubSeq(sum, 2, SignificandBits + 1)]

\* the bits of the quotient r / d after the leading one, by long division;
\* the last bit is the sticky bit
RECURSIVE DivBits(_, _, _)
DivBits(r, d, k) ==
  IF k = 0 THEN <<IF r > 0 THEN 1 ELSE 0>>
  ELSE IF 2 * r >= d THEN <<1>> \o DivBits(2 * r - d, d, k - 1)
  ELSE <<0>> \o DivBits(2 * r, d, k - 1)

\* the exponent of the leading bit of n / d
RECURSIVE LeadingExponent(_, _, _)
LeadingExponent(n, d, e) ==
  IF n < d THEN LeadingExponent(2 * n, d, e - 1)
  ELSE IF n >= 2 * d THEN LeadingExponent(n, 2 * d, e + 1)
  ELSE e

\* n / d for two integers n >= 0 and d > 0, as the double the division gives
DDiv(n, d) ==
  IF n = 0 THEN DZero
  ELSE LET e  == LeadingExponent(n, d, 0)
           nn == IF e < 0 THEN n * Pow2(0 - e) ELSE n
           dd == IF e > 0 THEN d * Pow2(e) ELSE d
       IN  RoundToDouble(e, <<1>> \o DivBits(nn - dd, dd, SignificandBits))

\* x + y for two doubles >= 0
DAdd(x, y) ==
  IF x = DZero THEN y
  ELSE IF y = DZero THEN x
  ELSE LET hi    == IF x.e >= y.e THEN x ELSE y
           lo    == IF x.e >= y.e THEN y ELSE x
           shift == hi.e - lo.e
           n     == SignificandBits + shift
           a     == [i \in 1..n |-> IF i <= SignificandBits THEN hi.m[i] ELSE 0]
           b     == [i \in 1..n |-> IF i > shift THEN lo.m[i - shift] ELSE 0]
           sum   == AddBits(a, b)
       IN  IF sum[1] = 1 THEN RoundToDouble(hi.e + 1, sum)
           ELSE RoundToDouble(hi.e, Tail(sum))

\* x <= y for two doubles >= 0
DLeq(x, y) ==
  IF x = DZero THEN TRUE
  ELSE IF y = DZero THEN FALSE
  ELSE IF x.e # y.e THEN x.e < y.e
  ELSE \/ x.m = y.m
       \/ \E i \in 1..SignificandBits :
            /\ x.m[i] < y.m[i]
            /\ \A j \in 1..(i - 1) : x.m[j] = y.m[j]

\* a double of hours, in minutes to the nearest minute; its leading 24 bits
\* decide
NearestMinute(x) ==
  IF x = DZero THEN 0
  ELSE LET top[i \in 0..24] == IF i = 0 THEN 0 ELSE 2 * top[i - 1] + x.m[i]
           scaled == MinutesPerHour * top[24]
           down   == 23 - x.e
       IN  (scaled + Pow2(down - 1)) \div Pow2(down)

\* the variant that counts whole hours
HoursOfWhole(minutes) == DDiv((minutes + 30) \div MinutesPerHour, 1)

\* line 32: (periodEnd.getTime() - periodStart.getTime()) / (1000 * 60 * 60)
HoursOf(minutes) == DDiv(minutes, MinutesPerHour)

\* the while loop of lines 17-38 with totalHours as the double it is
RECURSIVE BusinessLoopHours(_, _, _, _)
BusinessLoopHours(current, start, end, totalHours) ==
  IF current < end
    THEN BusinessLoopHours(NextMidnight(current), start, end,
                           DAdd(totalHours,
                                HoursOf(DayContribution(current, start, end))))
    ELSE totalHours

\* calculateBusinessHours(startDate, endDate), as the double returned
calculateBusinessHoursDouble(startDate, endDate) ==
  BusinessLoopHours(startDate, startDate, endDate, DZero)

(***************************************************************************)
(* Statistics                                                              *)
(***************************************************************************)
Scale == 100        \* sample values and results are in hundredths
TScale == 1000      \* t-values are in thousandths

Abs(x) == IF x < 0 THEN 0 - x ELSE x

RECURSIVE SumSeq(_)
SumSeq(s) == IF s = <<>> THEN 0 ELSE Head(s) + SumSeq(Tail(s))

\* Math.sqrt, rounded down to an integer of the argument's squared unit
RECURSIVE SqrtSearch(_, _, _)
SqrtSearch(x, lo, hi) ==
  IF lo >= hi THEN lo
  ELSE LET mid == (lo + hi + 1) \div 2
       IN  IF mid * mid <= x THEN SqrtSearch(x, mid, hi)
                             ELSE SqrtSearch(x, lo, mid - 1)

Sqrt(x) == SqrtSearch(x, 0, Min(x, 46340))

\* Math.round(x * 10) / 10 of a value in hundredths, as a count of tenths
RoundToTenths(x) == (x + 5) \div 10

calculateMean(values) ==
  IF Len(values) = 0 THEN 0 ELSE SumSeq(values) \div Len(values)

calculateMedian(values) ==
  IF Len(values) = 0 THEN 0
  ELSE LET sorted == SortSeq(values, LAMBDA a, b : a < b)
           mid    == Len(sorted) \div 2      \* 0-based index
       IN  IF Len(sorted) % 2 = 0
             THEN (sorted[mid] + sorted[mid + 1]) \div 2
             ELSE sorted[mid + 1]

calculateStandardDeviation(values) ==
  IF Len(values) <= 1 THEN 0
  ELSE LET mean == calculateMean(values)
           squaredDifferences ==
             [i \in 1..Len(values) |-> (values[i] - mean) * (values[i] - mean)]
           variance == SumSeq(squaredDifferences) \div (Len(values) - 1)
       IN  Sqrt(variance)

calculateStandardError(values) ==
  IF Len(values) <= 1 THEN 0
  ELSE LET standardDeviation == calculateStandardDeviation(values)
       IN  (standardDeviation * TScale) \div Sqrt(Len(values) * TScale * TScale)

AvailableDf ==
  <<1, 2, 3, 4, 5, 6, 7, 8, 9, 10, 15, 20, 25, 30, 40, 50, 60, 100, 1000>>

TTable95 ==
  <<12706, 4303, 3182, 2776, 2571, 2447, 2365, 2306, 2262, 2228,
    2131, 2086, 2060, 2042, 2021, 2009, 2000, 1984, 1962>>

TTable90 ==
  <<6314, 2920, 2353, 2132, 2015, 1943, 1895, 1860, 1833, 1812,
    1753, 1725, 1708, 1697, 1684, 1676, 1671, 1660, 1645>>

TTable99 ==
  <<63657, 9925, 5841, 4604, 4032, 3707, 3499, 3355, 3250, 3169,
    2947, 2845, 2787, 2750, 2704, 2678, 2660, 2626, 2576>>

\* the variant that takes the closest lower row of the table
getTValueFloor(confidenceLevel, degreesOfFreedom) ==
  LET tTable == IF confidenceLevel = 90 THEN TTable90
                ELSE IF confidenceLevel = 99 THEN TTable99
                ELSE TTable95
      hits   == {i \in 1..Len(AvailableDf) : AvailableDf[i] <= degreesOfFreedom}
  IN  IF degreesOfFreedom >= 1000 THEN tTable[Len(AvailableDf)]
      ELSE IF hits # {} THEN tTable[CHOOSE i \in hits : \A j \in hits : i >= j]
      ELSE tTable[1]

getTValue(confidenceLevel, degreesOfFreedom) ==
  LET tTable == IF confidenceLevel = 90 THEN TTable90
                ELSE IF confidenceLevel = 99 THEN TTable99
                ELSE TTable95
      hits   == {i \in 1..Len(AvailableDf) : degreesOfFreedom <= AvailableDf[i]}
  IN  IF degreesOfFreedom >= 1000 THEN tTable[Len(AvailableDf)]
      ELSE IF hits # {} THEN tTable[CHOOSE i \in hits : \A j \in hits : i <= j]
      ELSE tTable[Len(AvailableDf)]

calculateConfidenceInterval(values, confidenceLevel) ==
  IF Len(values) <= 1
    THEN [lower |-> 0, upper |-> 0, confidence |-> confidenceLevel]
    ELSE LET mean             == calculateMean(values)
             standardError    == calculateStandardError(values)
             degreesOfFreedom == Len(values) - 1
             tValue           == getTValue(confidenceLevel, degreesOfFreedom)
             marginOfError    == (tValue * standardError) \div TScale
         IN  [lower      |-> Max(0, mean - marginOfError),
              upper      |-> mean + marginOfError,
              confidence |-> confidenceLevel]

\* sqrt(1 + 1/n) in thousandths
SqrtOnePlusInverse(n) == Sqrt(((n + 1) * TScale * TScale) \div n)

calculatePredictiveRangeNormal(values, confidenceLevel) ==
  IF Len(values) <= 1
    THEN LET singleValue == IF Len(values) = 1 THEN values[1] ELSE 0
         IN  [expectedValue |-> singleValue, minValue |-> singleValue,
              maxValue |-> singleValue, standardError |-> 0,
              sampleSize |-> Len(values)]
    ELSE LET mean              == calculateMean(values)
             standardDeviation == calculateStandardDeviation(values)
             standardError     == calculateStandardError(values)
             zValue            == 1960
             predictionError   ==
               (((zValue * standardDeviation) \div TScale)
                  * SqrtOnePlusInverse(Len(values))) \div TScale
         IN  [expectedValue |-> mean,
              minValue      |-> Max(0, mean - predictionError),
              maxValue      |-> mean + predictionError,
              standardError |-> standardError,
              sampleSize    |-> Len(values)]

calculatePredictiveRange(values, confidenceLevel) ==
  IF Len(values) <= 1
    THEN LET singleValue == IF Len(values) = 1 THEN values[1] ELSE 0
         IN  [expectedValue |-> singleValue, minValue |-> singleValue,
              maxValue |-> singleValue, standardError |-> 0,
              sampleSize |-> Len(values)]
    ELSE LET mean              == calculateMean(values)
             standardDeviation == calculateStandardDeviation(values)
             standardError     == calculateStandardError(values)
             degreesOfFreedom  == Len(values) - 1
             tValue            == getTValue(confidenceLevel, degreesOfFreedom)
             predictionError   ==
               (((tValue * standardDeviation) \div TScale)
                  * SqrtOnePlusInverse(Len(values))) \div TScale
         IN  [expectedValue |-> mean,
              minValue      |-> Max(0, mean - predictionError),
              maxValue      |-> mean + predictionError,
              standardError |-> standardError,
              sampleSize    |-> Len(values)]

calculateStatisticalSummary(values, confidenceLevel) ==
  [mean               |-> calculateMean(values),
   median             |-> calculateMedian(values),
   standardDeviation  |-> calculateStandardDeviation(values),
   standardError      |-> calculateStandardError(values),
   sampleSize         |-> Len(values),
   confidenceInterval |-> calculateConfidenceInterval(values, confidenceLevel),
   predictiveRange    |-> calculatePredictiveRange(values, confidenceLevel)]

\* the callback of actualValues.map: accuracy of one pair, in hundredths of a
\* percent; actual and expected are whole hours
PairAccuracyUnclamped(actual, expected) ==
  IF expected = 0 THEN 0
  ELSE LET deviation == (Abs(actual - expected) * 10000) \div expected
       IN  Min(100 * Scale, 100 * Scale - deviation)

PairAccuracy(actual, expected) ==
  IF expected = 0 THEN 0
  ELSE LET deviation == (Abs(actual - expected) * 10000) \div expected
       IN  Max(0, Min(100 * Scale, 100 * Scale - deviation))

\* the result returned for mismatched lengths and for an empty sample
ZeroAccuracy(confidenceLevel) ==
  [accuracy           |-> 0,
   confidenceInterval |-> [lower |-> 0, upper |-> 0,
                           confidence |-> confidenceLevel],
   sampleSize         |-> 0]

\* lines 2924-2944: the result for a non-empty sample of pairs; accuracy and
\* interval bounds are counts of tenths of a percent
AccuracyOfPairs(actualValues, expectedValues, confidenceLevel) ==
  LET accuracyPercentages ==
        [i \in 1..Len(actualValues) |->
           PairAccuracy(actualValues[i], expectedValues[i])]
      meanAccuracy == calculateMean(accuracyPercentages)
      confidenceInterval ==
        calculateConfidenceInterval(accuracyPercentages, confidenceLevel)
  IN  [accuracy |-> RoundToTenths(meanAccuracy),
       confidenceInterval |->
         [lower |-> RoundToTenths(confidenceInterval.lower),
          upper |-> RoundToTenths(confidenceInterval.upper),
          confidence |-> confidenceLevel],
       sampleSize |-> Len(actualValues)]

\* the variant that rejects mismatched lengths with an exception
calculateAccuracyWithConfidenceThrowing(actualValues, expectedValues, confidenceLevel) ==
  IF Len(actualValues) # Len(expectedValues)
    THEN [kind |-> "throw", value |-> ZeroAccuracy(0)]
    ELSE IF Len(actualValues) = 0
      THEN [kind |-> "return", value |-> ZeroAccuracy(confidenceLevel)]
      ELSE [kind  |-> "return",
            value |-> AccuracyOfPairs(actualValues, expectedValues,
                                      confidenceLevel)]

\* kind records how the call completes: the code has no throw statement
calculateAccuracyWithConfidence(actualValues, expectedValues, confidenceLevel) ==
  IF Len(actualValues) # Len(expectedValues) \/ Len(actualValues) = 0
    THEN [kind |-> "return", value |-> ZeroAccuracy(confidenceLevel)]
    ELSE [kind  |-> "return",
          value |-> AccuracyOfPairs(actualValues, expectedValues,
                                    confidenceLevel)]

(***************************************************************************)
(* DORACalculator (second generation, README.md lines 1507-2677)           *)
(*                                                                         *)
(* Exact numbers are fractions [n, d] with d > 0.  An issue is a record    *)
(*   [id, stateType, stateName, completedAt, startedAt, createdAt,         *)
(*    estimate, labels, statusHistory]                                     *)
(* with NULL for an absent timestamp, 0 for an absent estimate, labels the *)
(* set of lower-cased label names (a name contains a keyword only when it  *)
(* is that keyword), statusHistory a sequence of [toState, timestamp].     *)
(* Display strings (unit, displayText, formattedValue, descriptions) are   *)
(* left out of the returned record.                                        *)
(***************************************************************************)
Q(n, d) == [n |-> n, d |-> d]
QLe(a, b) == a.n * b.d <= b.n * a.d
QGe(a, b) == QLe(b, a)

\* Math.round of a fraction: floor(x + 1/2)
Round(a) == (2 * a.n + a.d) \div (2 * a.d)

MapSeq(s, F(_)) == [i \in 1..Len(s) |-> F(s[i])]

\* index (1-based) of the first element satisfying Test, 0 when there is none
FindFirst(s, Test(_)) ==
  LET hits == {i \in 1..Len(s) : Test(s[i])}
  IN  IF hits = {} THEN 0 ELSE CHOOSE i \in hits : \A j \in hits : i <= j

NoCycle == [id |-> NULL, number |-> 0, startsAt |-> 0, endsAt |-> 0]

IsCompleted(issue) ==
  issue.completedAt # NULL /\ issue.stateType = "completed"

getCompletedIssues(issues) == SelectSeq(issues, IsCompleted)

\* the variant that keeps the completed items without estimate
getCompletedIssuesWithEstimatesOrNone(issues) ==
  SelectSeq(issues, LAMBDA issue : IsCompleted(issue))

getCompletedIssuesWithEstimates(issues) ==
  SelectSeq(issues, LAMBDA issue : IsCompleted(issue) /\ issue.estimate > 0)

\* entry.toState.toLowerCase().trim() for the state names of the model
LowerTrim(name) ==
  CASE name = "Code Review"  -> "code review"
    [] name = " In Review "  -> "in review"
    [] name = "In Progress"  -> "in progress"
    [] name = "Merged"       -> "merged"
    [] name = "merged"       -> "merged"
    [] name = "Deployed"     -> "deployed"
    [] name = "Done"         -> "done"
    [] OTHER                 -> name

IsReviewState(entry) ==
  LowerTrim(entry.toState) \in
    {"code review", "in review", "review", "pr review", "reviewing"}

\* the variant that takes the earliest review timestamp instead of the first
\* review entry of the array
getLeadTimeInHoursEarliest(issue) ==
  IF issue.completedAt = NULL \/ issue.estimate <= 0 THEN 0
  ELSE LET reviews == {i \in 1..Len(issue.statusHistory) :
                         IsReviewState(issue.statusHistory[i])}
           k == IF reviews = {} THEN 0
                ELSE CHOOSE i \in reviews : \A j \in reviews :
                       \/ issue.statusHistory[i].timestamp
                            < issue.statusHistory[j].timestamp
                       \/ (/\ issue.statusHistory[i].timestamp
                                = issue.statusHistory[j].timestamp
                           /\ i <= j)
           codeReviewStartTime ==
             IF k # 0 /\ issue.statusHistory[k].timestamp # NULL
               THEN issue.statusHistory[k].timestamp
               ELSE issue.startedAt
       IN  IF codeReviewStartTime = NULL THEN 0
           ELSE IF issue.completedAt <= codeReviewStartTime THEN 0
           ELSE calculateBusinessHours(codeReviewStartTime, issue.completedAt)

\* lines 1580-1631
getLeadTimeInHours(issue) ==
  IF issue.completedAt = NULL \/ issue.estimate <= 0 THEN 0
  ELSE LET k == FindFirst(issue.statusHistory, IsReviewState)
           codeReviewStartTime ==
             IF k # 0 /\ issue.statusHistory[k].timestamp # NULL
               THEN issue.statusHistory[k].timestamp
               ELSE issue.startedAt
       IN  IF codeReviewStartTime = NULL THEN 0
           ELSE IF issue.completedAt <= codeReviewStartTime THEN 0
           ELSE calculateBusinessHours(codeReviewStartTime, issue.completedAt)

\* Math.round((businessHours / 8) * 10) / 10 as a count of tenths of a day;
\* businessHours is a fraction of hours
getLeadTimeInDays(businessHours) ==
  Round(Q(businessHours.n * 10, businessHours.d * 8))

getRating(value, thresholds, reverse) ==
  IF reverse
    THEN IF QLe(value, thresholds[1]) THEN "Elite"
         ELSE IF QLe(value, thresholds[2]) THEN "High"
         ELSE IF QLe(value, thresholds[3]) THEN "Medium"
         ELSE "Low"
    ELSE IF QGe(value, thresholds[1]) THEN "Elite"
         ELSE IF QGe(value, thresholds[2]) THEN "High"
         ELSE IF QGe(value, thresholds[3]) THEN "Medium"
         ELSE "Low"

ThirtyDays == 30 * MinutesPerDay

getIssuesInPeriod(issues, days, now) ==
  SelectSeq(issues, LAMBDA issue :
    /\ issue.completedAt # NULL
    /\ issue.completedAt >= now - days * MinutesPerDay
    /\ issue.completedAt <= now)

HasLabel(issue, keywords) == issue.labels \cap keywords # {}

\* the sorted array of deployment cycles: one per calendar day of completion
RECURSIVE SortedDays(_)
SortedDays(days) ==
  IF days = {} THEN <<>>
  ELSE LET first == CHOOSE d \in days : \A e \in days : d <= e
       IN  <<first>> \o SortedDays(days \ {first})

getDeploymentCycles(issues) ==
  LET dated == SelectSeq(issues, LAMBDA issue : issue.completedAt # NULL)
      days  == {DayOf(dated[i].completedAt) : i \in 1..Len(dated)}
  IN  MapSeq(SortedDays(days), LAMBDA date :
        LET cycleIssues ==
              SelectSeq(dated, LAMBDA issue : DayOf(issue.completedAt) = date)
        IN  [date   |-> date,
             issues |-> cycleIssues,
             isFailedDeployment |->
               \E i \in 1..Len(cycleIssues) :
                 HasLabel(cycleIssues[i], {"bug", "hotfix", "incident", "revert"})])

IsMerged(entry) == entry.toState = "Merged"
IsDeployed(entry) == entry.toState = "Deployed"

getTimeToDeployHours(issue) ==
  IF issue.completedAt = NULL \/ issue.stateType # "completed" THEN 0
  ELSE LET m == FindFirst(issue.statusHistory, IsMerged)
           d == FindFirst(issue.statusHistory, IsDeployed)
           mergedTime   == IF m # 0 THEN issue.statusHistory[m].timestamp ELSE NULL
           deployedTime == IF d # 0 THEN issue.statusHistory[d].timestamp ELSE NULL
       IN  IF mergedTime = NULL \/ deployedTime = NULL THEN 0
           ELSE IF deployedTime <= mergedTime THEN 0
           ELSE calculateBusinessHours(mergedTime, deployedTime)

IsPositive(time) == time > 0

getIncidentRecoveryTimes(issues) ==
  LET incidentIssues ==
        SelectSeq(issues, LAMBDA issue :
          IsCompleted(issue) /\ HasLabel(issue, {"incident"}))
      times ==
        MapSeq(incidentIssues, LAMBDA issue :
          IF issue.createdAt = NULL THEN 0
          ELSE calculateBusinessHours(issue.createdAt, issue.completedAt))
  IN  SelectSeq(times, IsPositive)

\* times.reduce((sum, time) => sum + time, 0) / times.length, or 0 when the
\* sample is empty: a fraction of hours from a sample in minutes
AverageHours(times) ==
  IF Len(times) > 0 THEN Q(SumSeq(times), MinutesPerHour * Len(times))
  ELSE Q(0, 1)

\* the variant that truncates the percentage toward zero instead of rounding
TrendTruncated(current, previous) ==
  IF previous.n > 0
    THEN LET change == (current.n * previous.d - previous.n * current.d) * 100
         IN  IF change >= 0 THEN change \div (current.d * previous.n)
             ELSE 0 - ((0 - change) \div (current.d * previous.n))
    ELSE 0

\* previous > 0 ? Math.round(((current - previous) / previous) * 100) : 0
Trend(current, previous) ==
  IF previous.n > 0
    THEN Round(Q((current.n * previous.d - previous.n * current.d) * 100,
                 current.d * previous.n))
    ELSE 0

\* allCycles.findIndex(c => c.id === selectedCycle.id), 0-based, -1 if absent
FindCycleIndex(allCycles, selectedCycle) ==
  FindFirst(allCycles, LAMBDA c : c.id = selectedCycle.id) - 1

\* the guarded lookup allCycles[currentCycleIndex + 1] repeated before each
\* trend; NoCycle when a guard fails or the element is undefined
PreviousCycle(allCycles, selectedCycle) ==
  LET currentCycleIndex == FindCycleIndex(allCycles, selectedCycle)
  IN  IF currentCycleIndex > 0 /\ currentCycleIndex < Len(allCycles)
         /\ currentCycleIndex + 2 <= Len(allCycles)
        THEN allCycles[currentCycleIndex + 2]
        ELSE NoCycle

CompletedInCycle(issue, cycle) ==
  /\ IsCompleted(issue)
  /\ issue.completedAt >= cycle.startsAt
  /\ issue.completedAt <= cycle.endsAt

\* lines 2138-2140: the thresholds chosen for the deployment-frequency rating
DeploymentFrequencyRating(cycleBound, deploymentFrequency) ==
  IF cycleBound
    THEN getRating(deploymentFrequency, <<Q(10, 1), Q(5, 1), Q(1, 1)>>, FALSE)
    ELSE getRating(deploymentFrequency, <<Q(1, 1), Q(2, 10), Q(1, 10)>>, FALSE)

NameIncludesDeployed(stateName) == stateName \in {"Deployed"}

IsDeployedTask(issue) ==
  NameIncludesDeployed(issue.stateName) \/ issue.stateType = "completed"

IsFailedDeployment(issue) == HasLabel(issue, {"incident", "rollback"})

\* (failed / deployed) * 100, or 0 when nothing was deployed
FailureRate(deployedTasks) ==
  IF Len(deployedTasks) > 0
    THEN Q(Len(SelectSeq(deployedTasks, IsFailedDeployment)) * 100,
           Len(deployedTasks))
    ELSE Q(0, 1)

\* lines 1824-1835
PreviousPeriodIssues(issues, now) ==
  SelectSeq(getIssuesInPeriod(issues, 60, now), LAMBDA issue :
    /\ issue.completedAt >= now - 2 * ThirtyDays
    /\ issue.completedAt < now - ThirtyDays)

CompletedSinceThirtyDays(issue, now) == issue.completedAt >= now - ThirtyDays

\* lines 2082-2088: the local deployTimes, the time-to-deploy sample (minutes)
RecentCompletedIssues(issues, now) ==
  SelectSeq(getCompletedIssues(issues),
            LAMBDA issue : CompletedSinceThirtyDays(issue, now))

DeployTimes(issues, now) ==
  SelectSeq(MapSeq(RecentCompletedIssues(issues, now), getTimeToDeployHours),
            IsPositive)

\* lines 1918: the local leadTimes, the lead-time sample (minutes)
LeadTimes(issues, now) ==
  SelectSeq(
    MapSeq(SelectSeq(getCompletedIssuesWithEstimates(issues),
                     LAMBDA issue : CompletedSinceThirtyDays(issue, now)),
           getLeadTimeInHours),
    IsPositive)

\* lines 1820-2130: the locals of calculateDORAMetrics that hold the current and
\* the previous value of each metric before trends, rounding and ratings,
\* looked up by name
PeriodValue(what, issues, selectedCycle, allCycles, now) ==
  LET cycleBound     == selectedCycle.id # NULL
      recentIssues   == getIssuesInPeriod(issues, 30, now)
      previousPeriodIssues == PreviousPeriodIssues(issues, now)
      recentCycles   == getDeploymentCycles(recentIssues)
      previousCycles == getDeploymentCycles(previousPeriodIssues)
      previousCycle  ==
        IF cycleBound THEN PreviousCycle(allCycles, selectedCycle) ELSE NoCycle
      hasPrevious    == previousCycle.id # NULL
      InPrevious(issue) == CompletedInCycle(issue, previousCycle)
      \* 1. deployment frequency
      deploymentFrequency ==
        IF cycleBound
          THEN Q(Len(SelectSeq(issues,
                   LAMBDA issue : CompletedInCycle(issue, selectedCycle))), 1)
          ELSE Q(Len(recentCycles), 30)
      previousDeploymentFreq ==
        IF cycleBound
          THEN (IF hasPrevious THEN Q(Len(SelectSeq(issues, InPrevious)), 1)
                ELSE Q(0, 1))
          ELSE (IF Len(previousCycles) > 0 THEN Q(Len(previousCycles), 30)
                ELSE Q(0, 1))
      \* 2. lead time for changes
      averageLeadTimeHours == AverageHours(LeadTimes(issues, now))
      previousAvgLeadTime ==
        IF cycleBound
          THEN (IF hasPrevious
                  THEN AverageHours(SelectSeq(
                         MapSeq(SelectSeq(issues, LAMBDA issue :
                                  InPrevious(issue) /\ issue.estimate > 0),
                                getLeadTimeInHours),
                         IsPositive))
                  ELSE Q(0, 1))
          ELSE AverageHours(SelectSeq(
                 MapSeq(SelectSeq(previousPeriodIssues, LAMBDA issue :
                          IsCompleted(issue) /\ issue.estimate > 0),
                        getLeadTimeInHours),
                 IsPositive))
      \* 3. change failure rate
      deployedTasks     == SelectSeq(recentIssues, IsDeployedTask)
      failedDeployments == SelectSeq(deployedTasks, IsFailedDeployment)
      changeFailureRate == FailureRate(deployedTasks)
      previousFailureRate ==
        IF cycleBound
          THEN (IF hasPrevious THEN FailureRate(SelectSeq(issues, InPrevious))
                ELSE Q(0, 1))
          ELSE FailureRate(SelectSeq(previousPeriodIssues, IsDeployedTask))
      \* 4. time to recovery
      averageRecoveryTimeHours ==
        AverageHours(getIncidentRecoveryTimes(recentIssues))
      previousAvgRecovery ==
        IF cycleBound
          THEN (IF hasPrevious
                  THEN AverageHours(getIncidentRecoveryTimes(
                         SelectSeq(issues, LAMBDA issue :
                           InPrevious(issue) /\ HasLabel(issue, {"incident"}))))
                  ELSE Q(0, 1))
          ELSE AverageHours(getIncidentRecoveryTimes(previousPeriodIssues))
      \* 5. time to deploy
      recentCompletedIssues  == RecentCompletedIssues(issues, now)
      deployTimes            == DeployTimes(issues, now)
      averageDeployTimeHours == AverageHours(deployTimes)
      previousAvgDeployTime ==
        IF cycleBound
          THEN (IF hasPrevious
                  THEN AverageHours(SelectSeq(
                         MapSeq(SelectSeq(issues, InPrevious),
                                getTimeToDeployHours),
                         IsPositive))
                  ELSE Q(0, 1))
          ELSE AverageHours(SelectSeq(
                 MapSeq(SelectSeq(previousPeriodIssues, IsCompleted),
                        getTimeToDeployHours),
                 IsPositive))
  IN  CASE what = "cycleBound" -> cycleBound
        [] what = "deploymentFrequency" -> deploymentFrequency
        [] what = "previousDeploymentFreq" -> previousDeploymentFreq
        [] what = "averageLeadTimeHours" -> averageLeadTimeHours
        [] what = "previousAvgLeadTime" -> previousAvgLeadTime
        [] what = "changeFailureRate" -> changeFailureRate
        [] what = "previousFailureRate" -> previousFailureRate
        [] what = "deployedTasks" -> deployedTasks
        [] what = "failedDeployments" -> failedDeployments
        [] what = "averageRecoveryTimeHours" -> averageRecoveryTimeHours
        [] what = "previousAvgRecovery" -> previousAvgRecovery
        [] what = "recentCompletedIssues" -> recentCompletedIssues
        [] what = "deployTimes" -> deployTimes
        [] what = "averageDeployTimeHours" -> averageDeployTimeHours
        [] what = "previousAvgDeployTime" -> previousAvgDeployTime

calculateDORAMetrics(issues, selectedCycle, allCycles, now) ==
  LET cycleBound     == selectedCycle.id # NULL
      recentIssues   == getIssuesInPeriod(issues, 30, now)
      previousPeriodIssues == PreviousPeriodIssues(issues, now)
      recentCycles   == getDeploymentCycles(recentIssues)
      previousCycles == getDeploymentCycles(previousPeriodIssues)
      previousCycle  ==
        IF cycleBound THEN PreviousCycle(allCycles, selectedCycle) ELSE NoCycle
      hasPrevious    == previousCycle.id # NULL
      InPrevious(issue) == CompletedInCycle(issue, previousCycle)
      \* 1. deployment frequency
      deploymentFrequency ==
        IF cycleBound
          THEN Q(Len(SelectSeq(issues,
                   LAMBDA issue : CompletedInCycle(issue, selectedCycle))), 1)
          ELSE Q(Len(recentCycles), 30)
      previousDeploymentFreq ==
        IF cycleBound
          THEN (IF hasPrevious THEN Q(Len(SelectSeq(issues, InPrevious)), 1)
                ELSE Q(0, 1))
          ELSE (IF Len(previousCycles) > 0 THEN Q(Len(previousCycles), 30)
                ELSE Q(0, 1))
      \* 2. lead time for changes
      averageLeadTimeHours == AverageHours(LeadTimes(issues, now))
      previousAvgLeadTime ==
        IF cycleBound
          THEN (IF hasPrevious
                  THEN AverageHours(SelectSeq(
                         MapSeq(SelectSeq(issues, LAMBDA issue :
                                  InPrevious(issue) /\ issue.estimate > 0),
                                getLeadTimeInHours),
                         IsPositive))
                  ELSE Q(0, 1))
          ELSE AverageHours(SelectSeq(
                 MapSeq(SelectSeq(previousPeriodIssues, LAMBDA issue :
                          IsCompleted(issue) /\ issue.estimate > 0),
                        getLeadTimeInHours),
                 IsPositive))
      \* 3. change failure rate
      deployedTasks     == SelectSeq(recentIssues, IsDeployedTask)
      failedDeployments == SelectSeq(deployedTasks, IsFailedDeployment)
      changeFailureRate == FailureRate(deployedTasks)
      previousFailureRate ==
        IF cycleBound
          THEN (IF hasPrevious THEN FailureRate(SelectSeq(issues, InPrevious))
                ELSE Q(0, 1))
          ELSE FailureRate(SelectSeq(previousPeriodIssues, IsDeployedTask))
      \* 4. time to recovery
      averageRecoveryTimeHours ==
        AverageHours(getIncidentRecoveryTimes(recentIssues))
      previousAvgRecovery ==
        IF cycleBound
          THEN (IF hasPrevious
                  THEN AverageHours(getIncidentRecoveryTimes(
                         SelectSeq(issues, LAMBDA issue :
                           InPrevious(issue) /\ HasLabel(issue, {"incident"}))))
                  ELSE Q(0, 1))
          ELSE AverageHours(getIncidentRecoveryTimes(previousPeriodIssues))
      \* 5. time to deploy
      recentCompletedIssues  == RecentCompletedIssues(issues, now)
      deployTimes            == DeployTimes(issues, now)
      averageDeployTimeHours == AverageHours(deployTimes)
      previousAvgDeployTime ==
        IF cycleBound
          THEN (IF hasPrevious
                  THEN AverageHours(SelectSeq(
                         MapSeq(SelectSeq(issues, InPrevious),
                                getTimeToDeployHours),
                         IsPositive))
                  ELSE Q(0, 1))
          ELSE AverageHours(SelectSeq(
                 MapSeq(SelectSeq(previousPeriodIssues, IsCompleted),
                        getTimeToDeployHours),
                 IsPositive))
      averageLeadTimeDays      == getLeadTimeInDays(averageLeadTimeHours)
      averageRecoveryTimeDays  == getLeadTimeInDays(averageRecoveryTimeHours)
      averageDeployTimeDays    == getLeadTimeInDays(averageDeployTimeHours)
      deploymentTrend  == Trend(deploymentFrequency, previousDeploymentFreq)
      leadTimeTrend    == Trend(averageLeadTimeHours, previousAvgLeadTime)
      failureRateTrend == Trend(changeFailureRate, previousFailureRate)
      recoveryTrend    == Trend(averageRecoveryTimeHours, previousAvgRecovery)
      deployTimeTrend  == Trend(averageDeployTimeHours, previousAvgDeployTime)
  IN  [deploymentFrequency |->
         [value  |-> IF cycleBound THEN deploymentFrequency
                     ELSE Q(Round(Q(deploymentFrequency.n * 10,
                                    deploymentFrequency.d)), 10),
          trend  |-> deploymentTrend,
          rating |-> DeploymentFrequencyRating(cycleBound, deploymentFrequency)],
       leadTimeForChanges |->
         [value  |-> Q(averageLeadTimeDays, 10),
          trend  |-> 0 - leadTimeTrend,
          rating |-> getRating(Q(averageLeadTimeDays, 10),
                               <<Q(1, 1), Q(7, 1), Q(30, 1)>>, TRUE)],
       changeFailureRate |->
         [value  |-> Q(Round(Q(changeFailureRate.n * 10, changeFailureRate.d)), 10),
          trend  |-> 0 - failureRateTrend,
          rating |-> getRating(changeFailureRate,
                               <<Q(15, 1), Q(30, 1), Q(45, 1)>>, TRUE),
          details |-> [totalDeployments  |-> Len(deployedTasks),
                       failedDeployments |-> Len(failedDeployments)]],
       timeToRecovery |->
         [value  |-> Q(averageRecoveryTimeDays, 10),
          trend  |-> 0 - recoveryTrend,
          rating |-> getRating(Q(averageRecoveryTimeDays, 10),
                               <<Q(4, 100), Q(1, 1), Q(7, 1)>>, TRUE)],
       timeToDeploy |->
         [value  |-> Q(averageDeployTimeDays, 10),
          trend  |-> 0 - deployTimeTrend,
          rating |-> getRating(Q(averageDeployTimeDays, 10),
                               <<Q(125, 1000), Q(5, 10), Q(2, 1)>>, TRUE),
          details |->
            [totalDeployments    |-> Len(recentCompletedIssues),
             \* the count printed by deploymentDescription
             measuredDeployments |-> Len(deployTimes),
             \* Math.round(hours * 10) / 10 as a count of tenths of an hour
             averageDeployTime   |->
               Round(Q(averageDeployTimeHours.n * 10, averageDeployTimeHours.d))]]]

(***************************************************************************)
(* calculateCodeReviewAnalysis (README.md lines 2444-2674).  A review task *)
(* is [issueId, estimate, timeInReview, reviewStartedAt, mergedAt] with    *)
(* timeInReview in minutes.                                                *)
(***************************************************************************)
IsCodeReviewEntry(entry) ==
  LowerTrim(entry.toState) \in
    {"code review", "in review", "review", "pr review", "reviewing",
     "ready for review", "pending review", "under review"}

IsMergedEntry(entry) ==
  LowerTrim(entry.toState) \in
    {"merged", "deployed", "completed", "done", "released", "closed", "finished"}

MinimumReviewTime == 2 * MinutesPerHour

\* lines 2467-2535: the pair (codeReviewStartTime, mergedTime) of an issue and
\* where it came from; NULL when no method applies
ReviewInterval(issue) ==
  LET k == FindFirst(issue.statusHistory, IsCodeReviewEntry)
      m == FindFirst(issue.statusHistory, IsMergedEntry)
  IN  IF k # 0 /\ m # 0 /\ issue.statusHistory[k].timestamp # NULL
         /\ issue.statusHistory[m].timestamp # NULL
        THEN [reviewStart |-> issue.statusHistory[k].timestamp,
              reviewEnd   |-> issue.statusHistory[m].timestamp,
              fromHistory |-> TRUE]
      ELSE IF issue.startedAt # NULL /\ issue.completedAt # NULL
        THEN [reviewStart |-> issue.startedAt
                                + ((issue.completedAt - issue.startedAt) * 3) \div 4,
              reviewEnd   |-> issue.completedAt,
              fromHistory |-> FALSE]
      ELSE IF issue.completedAt # NULL
        THEN [reviewStart |-> issue.completedAt - MinutesPerDay,
              reviewEnd   |-> issue.completedAt,
              fromHistory |-> FALSE]
      ELSE [reviewStart |-> NULL, reviewEnd |-> NULL, fromHistory |-> FALSE]

ReviewTask(issue, interval, timeInReview) ==
  [issueId         |-> issue.id,
   estimate        |-> issue.estimate,
   timeInReview    |-> timeInReview,
   reviewStartedAt |-> interval.reviewStart,
   mergedAt        |-> interval.reviewEnd]

\* the body of this.issues.forEach: the tasks (none or one) pushed for an issue
ReviewTasksOf(issue) ==
  IF ~IsCompleted(issue) THEN <<>>
  ELSE LET interval == ReviewInterval(issue)
       IN  IF interval.reviewStart = NULL \/ interval.reviewEnd = NULL THEN <<>>
           ELSE IF interval.reviewEnd <= interval.reviewStart
             THEN (IF ~interval.fromHistory
                     THEN <<ReviewTask(issue, interval, MinimumReviewTime)>>
                     ELSE <<>>)
             ELSE LET actualReviewTime ==
                        calculateBusinessHours(interval.reviewStart,
                                               interval.reviewEnd)
                  IN  IF actualReviewTime > 0
                        THEN <<ReviewTask(issue, interval, actualReviewTime)>>
                        ELSE <<>>

RECURSIVE ReviewTasks(_)
ReviewTasks(issues) ==
  IF issues = <<>> THEN <<>>
  ELSE ReviewTasksOf(Head(issues)) \o ReviewTasks(Tail(issues))

\* Array.prototype.sort with (a, b) => keys[b] - keys[a]: descending, stable
SortDescendingBy(s, keys) ==
  [k \in 1..Len(s) |->
     s[CHOOSE i \in 1..Len(s) :
         Cardinality({j \in 1..Len(s) :
                        keys[j] > keys[i] \/ (keys[j] = keys[i] /\ j < i)}) + 1 = k]]

TimesInReview(tasks) == [i \in 1..Len(tasks) |-> tasks[i].timeInReview]

\* sum / length of the review times, or 0 for no task: a fraction of minutes
AverageReviewTime(tasks) ==
  IF Len(tasks) > 0 THEN Q(SumSeq(TimesInReview(tasks)), Len(tasks))
  ELSE Q(0, 1)

\* lines 2619-2624: the local getRating(hours) on a fraction of minutes
ReviewRating(average) ==
  IF QLe(average, Q(4 * MinutesPerHour, 1)) THEN "Elite"
  ELSE IF QLe(average, Q(24 * MinutesPerHour, 1)) THEN "High"
  ELSE IF QLe(average, Q(72 * MinutesPerHour, 1)) THEN "Medium"
  ELSE "Low"

EstimateGroups == <<1, 2, 3, 5, 8>>

\* the ranges of the distribution in hours; the last one is unbounded
ReviewRanges == <<[min |-> 0, max |-> 4], [min |-> 4, max |-> 24],
                  [min |-> 24, max |-> 72], [min |-> 72, max |-> 168],
                  [min |-> 168, max |-> NULL]>>

InRange(time, range) ==
  /\ time >= range.min * MinutesPerHour
  /\ (range.max = NULL \/ time < range.max * MinutesPerHour)

\* Math.round(hours * 10) / 10 of a fraction of minutes, in tenths of an hour
TenthsOfHours(average) == Round(Q(average.n * 10, average.d * MinutesPerHour))

calculateCodeReviewAnalysis(issues, now) ==
  LET reviewTasks   == ReviewTasks(issues)
      recentTasks   == SelectSeq(reviewTasks, LAMBDA task :
                         task.mergedAt >= now - ThirtyDays)
      previousTasks == SelectSeq(reviewTasks, LAMBDA task :
                         /\ task.mergedAt >= now - 2 * ThirtyDays
                         /\ task.mergedAt < now - ThirtyDays)
      trend == Trend(AverageReviewTime(recentTasks),
                     AverageReviewTime(previousTasks))
  IN  [averageTimeInReview |->
         [value  |-> TenthsOfHours(AverageReviewTime(reviewTasks)),
          trend  |-> 0 - trend,
          rating |-> ReviewRating(AverageReviewTime(reviewTasks))],
       tasks |-> SortDescendingBy(reviewTasks, TimesInReview(reviewTasks)),
       byEstimate |->
         MapSeq(EstimateGroups, LAMBDA estimate :
           LET tasksWithEstimate ==
                 SelectSeq(reviewTasks, LAMBDA task : task.estimate = estimate)
           IN  [estimate          |-> estimate,
                averageReviewTime |->
                  TenthsOfHours(AverageReviewTime(tasksWithEstimate)),
                count             |-> Len(tasksWithEstimate)]),
       distribution |->
         MapSeq(ReviewRanges, LAMBDA range :
           LET count == Len(SelectSeq(reviewTasks, LAMBDA task :
                              InRange(task.timeInReview, range)))
           IN  [range      |-> range,
                count      |-> count,
                percentage |->
                  IF Len(reviewTasks) > 0
                    THEN Round(Q(count * 100, Len(reviewTasks)))
                    ELSE 0])]

(***************************************************************************)
(* calculateLeadTimeAnalysis and calculateEstimationAnalysis (README.md    *)
(* lines 2235-2434).  Lead times are in minutes; the samples handed to the *)
(* statistics are in hundredths of an hour.                                *)
(***************************************************************************)
\* lines 1560-1578: current issues, then the historical ones whose id is new
getAllCompletedIssuesWithEstimates(issues, historicalIssues) ==
  LET currentIssues   == getCompletedIssuesWithEstimates(issues)
      currentIssueIds == {currentIssues[i].id : i \in 1..Len(currentIssues)}
      uniqueHistoricalIssues ==
        SelectSeq(historicalIssues, LAMBDA issue : issue.id \notin currentIssueIds)
  IN  IF Len(historicalIssues) > 0
        THEN currentIssues \o uniqueHistoricalIssues
        ELSE currentIssues

\* a duration in minutes as a sample value of the statistics
HoursScaled(minutes) == (minutes * Scale) \div MinutesPerHour

\* Math.round of a number of hours given in minutes
RoundHours(minutes) == Round(Q(minutes, MinutesPerHour))

HoursPerPoint == 8

\* estimate * 8 hours, in minutes
ExpectedMinutes(estimate) == estimate * HoursPerPoint * MinutesPerHour

\* the locals of one estimate group, the same in lines 2240-2256 and
\* 2303-2318
EstimateGroupStatistics(completedIssuesWithEstimates, estimate) ==
  LET issuesWithEstimate ==
        SelectSeq(completedIssuesWithEstimates,
                  LAMBDA issue : issue.estimate = estimate)
      leadTimes ==
        SelectSeq(MapSeq(issuesWithEstimate, getLeadTimeInHours), IsPositive)
      expectedValues ==
        MapSeq(leadTimes, LAMBDA time : ExpectedMinutes(estimate))
  IN  [issuesWithEstimate |-> issuesWithEstimate,
       average            |-> AverageHours(leadTimes),
       statisticalSummary |->
         calculateStatisticalSummary(MapSeq(leadTimes, HoursScaled), 95),
       accuracyWithConfidence |->
         calculateAccuracyWithConfidence(leadTimes, expectedValues, 95).value]

LeadTimeRanges == <<[min |-> 0, max |-> 8], [min |-> 8, max |-> 40],
                    [min |-> 40, max |-> 168], [min |-> 168, max |-> 336],
                    [min |-> 336, max |-> NULL]>>

TrendDays == 30

\* lines 2361-2383: one entry per calendar day of the last 30, today last
calculateTrends(issues, now) ==
  [i \in 1..TrendDays |->
     LET date == DayOf(now) - (TrendDays - i)
         dayIssues == SelectSeq(issues, LAMBDA issue :
                        issue.completedAt # NULL /\ DayOf(issue.completedAt) = date)
         leadTimes == SelectSeq(MapSeq(dayIssues, getLeadTimeInHours), IsPositive)
     IN  [date |-> date, leadTime |-> Round(AverageHours(leadTimes))]]

calculateLeadTimeAnalysis(issues, historicalIssues, now) ==
  LET completedIssuesWithEstimates ==
        getAllCompletedIssuesWithEstimates(issues, historicalIssues)
      allLeadTimes ==
        SelectSeq(MapSeq(completedIssuesWithEstimates, getLeadTimeInHours),
                  IsPositive)
  IN  [byEstimate |->
         MapSeq(EstimateGroups, LAMBDA estimate :
           LET group == EstimateGroupStatistics(completedIssuesWithEstimates,
                                                estimate)
           IN  [estimate           |-> estimate,
                averageLeadTime    |-> Round(group.average),
                count              |-> Len(group.issuesWithEstimate),
                accuracy           |-> group.accuracyWithConfidence.accuracy,
                confidenceInterval |->
                  group.accuracyWithConfidence.confidenceInterval,
                predictiveRange    |-> group.statisticalSummary.predictiveRange,
                statisticalSummary |-> group.statisticalSummary]),
       distribution |->
         MapSeq(LeadTimeRanges, LAMBDA range :
           LET count == Len(SelectSeq(allLeadTimes,
                              LAMBDA time : InRange(time, range)))
           IN  [range      |-> range,
                count      |-> count,
                percentage |->
                  IF Len(allLeadTimes) > 0
                    THEN Round(Q(count * 100, Len(allLeadTimes)))
                    ELSE 0]),
       trends |-> calculateTrends(completedIssuesWithEstimates, now)]

\* weekStart.setDate(date.getDate() - date.getDay()): the Sunday of the week
WeekStart(instant) == DayOf(instant) - getDay(instant)

VelocityWeeks == 8

\* the variant slice(0, n)
FirstN(s, n) == IF Len(s) <= n THEN s ELSE SubSeq(s, 1, n)

\* Array.prototype.slice(-n)
LastN(s, n) == IF Len(s) <= n THEN s ELSE SubSeq(s, Len(s) - n + 1, Len(s))

RECURSIVE SumEstimates(_, _)
SumEstimates(issues, default) ==
  IF issues = <<>> THEN 0
  ELSE (IF Head(issues).estimate # 0 THEN Head(issues).estimate ELSE default)
         + SumEstimates(Tail(issues), default)

\* lines 2385-2434; accuracy is a percentage in hundredths before the final
\* rounding
calculateVelocityTrends(issues) ==
  LET dated == SelectSeq(issues, LAMBDA issue : issue.completedAt # NULL)
      weekKeys == {WeekStart(dated[i].completedAt) : i \in 1..Len(dated)}
      weeklyData ==
        LastN(MapSeq(SortedDays(weekKeys), LAMBDA weekStart :
                LET weekIssues == SelectSeq(dated, LAMBDA issue :
                                    WeekStart(issue.completedAt) = weekStart)
                    planned == SumEstimates(weekIssues, 0)
                    actual  == SumEstimates(weekIssues, 1)
                IN  [period   |-> weekStart,
                     planned  |-> planned,
                     actual   |-> actual,
                     accuracy |-> IF planned > 0
                                    THEN (Min(actual, planned) * 100 * Scale)
                                           \div planned
                                    ELSE 0]),
              VelocityWeeks)
      accuracyStats ==
        calculateStatisticalSummary(MapSeq(weeklyData, LAMBDA week : week.accuracy), 95)
  IN  MapSeq(weeklyData, LAMBDA week :
        [period   |-> week.period,
         planned  |-> week.planned,
         actual   |-> week.actual,
         accuracy |-> (week.accuracy + Scale \div 2) \div Scale,
         confidenceInterval |-> accuracyStats.confidenceInterval])

MaxBottlenecks == 10

\* the overrun percentage of lines 2337-2339 and 2346, rounded
Overrun(actualTime, expectedTime) ==
  IF expectedTime > 0 /\ actualTime > 0
    THEN Round(Q((actualTime - expectedTime) * 100, expectedTime))
    ELSE 0

\* the variant whose filter keeps an overrun of exactly 50 percent
IsBottleneckInclusive(item) == item.actualTime > 0 /\ item.overrun >= 50

\* line 2350: the filter of the bottleneck list
IsBottleneck(item) == item.actualTime > 0 /\ item.overrun > 50

\* the variant that cuts the list to 10 entries before it sorts them
BottlenecksCutFirst(completedIssuesWithEstimates) ==
  LET items ==
        MapSeq(completedIssuesWithEstimates, LAMBDA issue :
          LET actualTime   == getLeadTimeInHours(issue)
              expectedTime == ExpectedMinutes(issue.estimate)
          IN  [issueId    |-> issue.id,
               estimate   |-> issue.estimate,
               actualTime |-> RoundHours(actualTime),
               overrun    |-> Overrun(actualTime, expectedTime)])
      kept == SelectSeq(items, IsBottleneck)
      cut  == SubSeq(kept, 1, Min(Len(kept), MaxBottlenecks))
  IN  SortDescendingBy(cut, MapSeq(cut, LAMBDA item : item.overrun))

\* lines 2335-2352
Bottlenecks(completedIssuesWithEstimates) ==
  LET items ==
        MapSeq(completedIssuesWithEstimates, LAMBDA issue :
          LET actualTime   == getLeadTimeInHours(issue)
              expectedTime == ExpectedMinutes(issue.estimate)
          IN  [issueId    |-> issue.id,
               estimate   |-> issue.estimate,
               actualTime |-> RoundHours(actualTime),
               overrun    |-> Overrun(actualTime, expectedTime)])
      kept == SelectSeq(items, IsBottleneck)
      sorted == SortDescendingBy(kept, MapSeq(kept, LAMBDA item : item.overrun))
  IN  SubSeq(sorted, 1, Min(Len(sorted), MaxBottlenecks))

calculateEstimationAnalysis(issues, historicalIssues) ==
  LET completedIssuesWithEstimates ==
        getAllCompletedIssuesWithEstimates(issues, historicalIssues)
  IN  [accuracyByEstimate |->
         MapSeq(EstimateGroups, LAMBDA estimate :
           LET group == EstimateGroupStatistics(completedIssuesWithEstimates,
                                                estimate)
           IN  [estimate           |-> estimate,
                accuracy           |-> group.accuracyWithConfidence.accuracy,
                count              |-> Len(group.issuesWithEstimate),
                averageActual      |-> Round(group.average),
                confidenceInterval |->
                  group.accuracyWithConfidence.confidenceInterval,
                predictiveRange    |-> group.statisticalSummary.predictiveRange,
                statisticalSummary |-> group.statisticalSummary]),
       velocityTrends |-> calculateVelocityTrends(completedIssuesWithEstimates),
       bottlenecks    |-> Bottlenecks(completedIssuesWithEstimates)]

(***************************************************************************)
(* The historical sample (part_003 lines 627-1160, README.md 1524-1538).   *)
(* A row of linear_issues_history is                                       *)
(*   [issue_id, estimate, state_name, state_type, created_at,              *)
(*    completed_at, started_at, labels, status_history]                    *)
(* with labels and status_history standing for the stored JSON texts.      *)
(***************************************************************************)
\* the row saveIssuesHistory builds for an issue
HistoryRow(issue) ==
  [issue_id       |-> issue.id,
   estimate       |-> issue.estimate,
   state_name     |-> issue.stateName,
   state_type     |-> issue.stateType,
   created_at     |-> issue.createdAt,
   completed_at   |-> issue.completedAt,
   started_at     |-> issue.startedAt,
   labels         |-> issue.labels,
   status_history |-> issue.statusHistory]

\* lines 665-693: lead_time_hours, in hundredths of an hour, or NULL
LeadTimeHoursColumn(issue) ==
  IF issue.completedAt # NULL /\ issue.startedAt # NULL
    THEN Round(Q(calculateBusinessHours(issue.startedAt, issue.completedAt) * 100,
                 MinutesPerHour))
    ELSE NULL

\* lines 695-717: the record saveIssuesHistory writes for an issue
SavedRow(userId, issue) ==
  [user_id |-> userId, title |-> issue.title, updated_at |-> issue.updatedAt,
   lead_time_hours |-> LeadTimeHoursColumn(issue)] @@ HistoryRow(issue)

\* lines 843-876: one pass of the loop over the issues to save
SaveOne(userId, store, issue) ==
  LET sanitizedIssue == SavedRow(userId, issue)
      existingIssue ==
        {k \in 1..Len(store) :
           /\ store[k].user_id = userId
           /\ store[k].issue_id = sanitizedIssue.issue_id
           /\ store[k].updated_at = sanitizedIssue.updated_at}
  IN  IF existingIssue = {} THEN Append(store, sanitizedIssue)
      ELSE LET k == CHOOSE i \in existingIssue : \A j \in existingIssue : i <= j
               existing == store[k]
               needsUpdate ==
                 \/ existing.title # sanitizedIssue.title
                 \/ existing.state_name # sanitizedIssue.state_name
                 \/ existing.completed_at # sanitizedIssue.completed_at
                 \/ existing.lead_time_hours # sanitizedIssue.lead_time_hours
           IN  IF needsUpdate THEN [store EXCEPT ![k] = sanitizedIssue] ELSE store

\* lines 656-1010: the table after saveIssuesHistory(userId, issues)
RECURSIVE saveIssuesHistory(_, _, _)
saveIssuesHistory(userId, issues, store) ==
  IF userId = NULL \/ issues = <<>> THEN store
  ELSE saveIssuesHistory(userId, Tail(issues), SaveOne(userId, store, Head(issues)))

HistoryLimit == 1000

\* historicalDataManager.getAllCompletedIssuesWithEstimates: the rows with
\* state_type 'completed' and estimate > 0, latest completion first
QueryCompletedWithEstimates(store) ==
  LET rows == SelectSeq(store, LAMBDA row :
                row.state_type = "completed" /\ row.estimate > 0)
      sorted == SortDescendingBy(rows, MapSeq(rows, LAMBDA row : row.completed_at))
  IN  SubSeq(sorted, 1, Min(Len(sorted), HistoryLimit))

convertToLinearIssues(historicalData) ==
  MapSeq(historicalData, LAMBDA hist :
    [id            |-> hist.issue_id,
     stateType     |-> hist.state_type,
     stateName     |-> hist.state_name,
     createdAt     |-> hist.created_at,
     startedAt     |-> hist.started_at,
     completedAt   |-> hist.completed_at,
     estimate      |-> hist.estimate,
     labels        |-> hist.labels,
     statusHistory |-> hist.status_history])

\* the value of this.historicalIssues after loadHistoricalData returns; failed
\* tells whether the query or the conversion raised an error
loadHistoricalData(userId, historicalIssues, store, failed) ==
  IF userId = NULL THEN historicalIssues
  ELSE IF failed THEN <<>>
  ELSE convertToLinearIssues(QueryCompletedWithEstimates(store))

(***************************************************************************)
(* The entry points of the engine as they are invoked on one calculator    *)
(***************************************************************************)
EntryPoints ==
  {"calculateDORAMetrics", "calculateLeadTimeAnalysis",
   "calculateEstimationAnalysis", "calculateCodeReviewAnalysis",
   "calculateStatisticalSummary", "calculateMedian"}

\* the variant whose estimation analysis looks at the last 30 days only
InvokeWindowed(name, issues, selectedCycle, allCycles, historicalIssues, now, values) ==
  CASE name = "calculateDORAMetrics" ->
         [metrics |-> calculateDORAMetrics(issues, selectedCycle, allCycles, now)]
    [] name = "calculateLeadTimeAnalysis" ->
         [leadTime |-> calculateLeadTimeAnalysis(issues, historicalIssues, now)]
    [] name = "calculateEstimationAnalysis" ->
         [estimation |->
            calculateEstimationAnalysis(getIssuesInPeriod(issues, 30, now),
                                        historicalIssues)]
    [] name = "calculateCodeReviewAnalysis" ->
         [codeReview |-> calculateCodeReviewAnalysis(issues, now)]
    [] name = "calculateStatisticalSummary" ->
         [summary |-> calculateStatisticalSummary(values, 95)]
    [] name = "calculateMedian" ->
         [median |-> calculateMedian(values)]

\* what the entry point returns: the calculator's methods read this.issues,
\* this.selectedCycle, this.allCycles, this.historicalIssues and the clock; the
\* statistics functions read their argument
Invoke(name, issues, selectedCycle, allCycles, historicalIssues, now, values) ==
  CASE name = "calculateDORAMetrics" ->
         [metrics |-> calculateDORAMetrics(issues, selectedCycle, allCycles, now)]
    [] name = "calculateLeadTimeAnalysis" ->
         [leadTime |-> calculateLeadTimeAnalysis(issues, historicalIssues, now)]
    [] name = "calculateEstimationAnalysis" ->
         [estimation |-> calculateEstimationAnalysis(issues, historicalIssues)]
    [] name = "calculateCodeReviewAnalysis" ->
         [codeReview |-> calculateCodeReviewAnalysis(issues, now)]
    [] name = "calculateStatisticalSummary" ->
         [summary |-> calculateStatisticalSummary(values, 95)]
    [] name = "calculateMedian" ->
         [median |-> calculateMedian(values)]

\* the variant that sorts the argument itself: values.sort((a, b) => a - b)
ArgumentAfterSortInPlace(values) == SortSeq(values, LAMBDA a, b : a < b)

\* line 2720: [...values].sort(...) sorts a copy, the argument keeps its order
ArgumentAfterSortedCopy(values) == values

VARIABLES
  issues,        \* DORACalculator.issues
  selectedCycle, \* DORACalculator.selectedCycle, NoCycle when undefined
  allCycles,     \* DORACalculator.allCycles, most recent first
  now,           \* the wall clock read by Date.now() and new Date()
  doraMetrics,   \* the DORAMetrics returned by calculateDORAMetrics
  userId,        \* DORACalculator.userId, NULL when undefined
  historicalIssues,    \* DORACalculator.historicalIssues
  historyStore,        \* the rows of linear_issues_history of the user
  codeReviewAnalysis,  \* the result of calculateCodeReviewAnalysis
  estimationAnalysis,  \* the result of calculateEstimationAnalysis
  engCall,       \* the last invocation: entry point, clock and history read
  engResult      \* what that invocation returned

doraVars == <<issues, selectedCycle, allCycles, now, doraMetrics>>

analysisVars ==
  <<userId, historicalIssues, historyStore, codeReviewAnalysis,
    estimationAnalysis, engCall, engResult>>

VARIABLES
  leadTimes,     \* the local leadTimes of calculateDORAMetrics, the lead-time sample
  tvLevel,       \* getTValue: the argument confidenceLevel
  tvDf,          \* getTValue: the argument degreesOfFreedom
  tvValue,       \* getTValue: the value returned, in thousandths
  velocityTrends, \* calculateVelocityTrends: the buckets returned
  addStart,      \* three instants start <= mid <= end
  addMid,
  addEnd,
  addWhole,      \* calculateBusinessHours(start, end), the double returned
  addFirst,      \* calculateBusinessHours(start, mid)
  addSecond,     \* calculateBusinessHours(mid, end)
  combinedIssues, \* the local combinedIssues of getAllCompletedIssuesWithEstimates
  sessions,      \* the number of times the dashboard has loaded its data
  cacheTable,    \* the rows of the table cycle_data_cache
  cacheCalls,    \* the calls of the cache manager, each with its locals
  cacheClock,    \* Date.now()
  sinceClear,    \* history: for each key, whether a clearCache has completed
                 \* and no saveToCache has been in flight since it started
  refreshTimers, \* DataStorageService.refreshTimers: key -> timer, 0 for no entry
  activeTimers,  \* the interval timers of the runtime that have not been cleared
  timerKey,      \* for each timer created, the key its callback refreshes
  timerCount,    \* the number of timers created
  clearedTimers, \* history: the timers handed to clearInterval
  ticks,         \* for each timer, the number of callbacks started
  pending,       \* for each timer, the callbacks started and not yet settled
  rejections,    \* for each timer, the callbacks that rejected
  lastTick       \* history: the last callback started

leadVars == <<leadTimes>>

tvVars == <<tvLevel, tvDf, tvValue>>

velVars == <<velocityTrends>>

addVars == <<addStart, addMid, addEnd, addWhole, addFirst, addSecond>>

histVars == <<combinedIssues, sessions>>

cacheVars == <<cacheTable, cacheCalls, cacheClock, sinceClear>>

refreshVars ==
  <<refreshTimers, activeTimers, timerKey, timerCount, clearedTimers, ticks,
    pending, rejections, lastTick>>

laterVars ==
  <<leadVars, tvVars, velVars, addVars, histVars, cacheVars, refreshVars>>

vars ==
  <<clockVars, statVars, accVars, rateVars, doraVars, analysisVars, laterVars, pc>>

(***************************************************************************)
(* Inputs of the calculator: cycles, wall clock and issue fixtures         *)
(***************************************************************************)
Cycle3 == [id |-> 3, number |-> 3, startsAt |-> At(56, 0, 0), endsAt |-> At(69, 23, 59)]
Cycle2 == [id |-> 2, number |-> 2, startsAt |-> At(42, 0, 0), endsAt |-> At(55, 23, 59)]
Cycle1 == [id |-> 1, number |-> 1, startsAt |-> At(28, 0, 0), endsAt |-> At(41, 23, 59)]
Cycle0 == [id |-> 4, number |-> 0, startsAt |-> At(14, 0, 0), endsAt |-> At(27, 23, 59)]

\* this.allCycles as the dashboard passes it: most recent first
CycleList == <<Cycle3, Cycle2, Cycle1, Cycle0>>

Clock == {At(70, 12, 0)}

Transition(toState, timestamp) == [toState |-> toState, timestamp |-> timestamp]

\* reviewed, merged Friday 10:00 and deployed Friday 16:00, in cycle 3
FullWorkflow ==
  [id |-> 0, stateType |-> "completed", stateName |-> "Deployed",
   createdAt |-> At(57, 9, 0), startedAt |-> At(58, 9, 0),
   completedAt |-> At(60, 16, 0), estimate |-> 2, labels |-> {},
   statusHistory |-> <<Transition("In Progress", At(58, 9, 0)),
                       Transition("Code Review", At(59, 10, 0)),
                       Transition("Merged", At(60, 10, 0)),
                       Transition("Deployed", At(60, 16, 0))>>]

\* merged Saturday 10:00 and deployed Saturday 12:00, in cycle 3
WeekendDeploy ==
  [id |-> 0, stateType |-> "completed", stateName |-> "Deployed",
   createdAt |-> At(60, 9, 0), startedAt |-> At(60, 10, 0),
   completedAt |-> At(61, 12, 0), estimate |-> 1, labels |-> {"hotfix"},
   statusHistory |-> <<Transition("Merged", At(61, 10, 0)),
                       Transition("Deployed", At(61, 12, 0))>>]

\* deployed without a Merged transition, in cycle 3
NeverMerged ==
  [id |-> 0, stateType |-> "completed", stateName |-> "Done",
   createdAt |-> At(59, 9, 0), startedAt |-> At(59, 13, 0),
   completedAt |-> At(63, 11, 0), estimate |-> 0, labels |-> {},
   statusHistory |-> <<Transition("In Progress", At(59, 13, 0)),
                       Transition("Deployed", At(63, 11, 0))>>]

\* merged without a Deployed transition, in cycle 3
NeverDeployed ==
  [id |-> 0, stateType |-> "completed", stateName |-> "Done",
   createdAt |-> At(57, 9, 0), startedAt |-> NULL,
   completedAt |-> At(59, 15, 0), estimate |-> 3, labels |-> {},
   statusHistory |-> <<Transition("Merged", At(59, 9, 30))>>]

\* an incident opened, merged and deployed on a Thursday of cycle 2
IncidentFix ==
  [id |-> 0, stateType |-> "completed", stateName |-> "Deployed",
   createdAt |-> At(45, 9, 0), startedAt |-> At(45, 9, 0),
   completedAt |-> At(45, 15, 0), estimate |-> 1, labels |-> {"incident"},
   statusHistory |-> <<Transition("Merged", At(45, 11, 0)),
                       Transition("Deployed", At(45, 15, 0))>>]

\* still being worked on
InProgress ==
  [id |-> 0, stateType |-> "started", stateName |-> "In Progress",
   createdAt |-> At(64, 9, 0), startedAt |-> At(65, 9, 0),
   completedAt |-> NULL, estimate |-> 5, labels |-> {},
   statusHistory |-> <<Transition("In Progress", At(65, 9, 0))>>]

\* completed in cycle 0, more than 30 days before the wall clock
OldDeploy ==
  [id |-> 0, stateType |-> "completed", stateName |-> "Deployed",
   createdAt |-> At(15, 9, 0), startedAt |-> At(16, 9, 0),
   completedAt |-> At(17, 10, 30), estimate |-> 2, labels |-> {},
   statusHistory |-> <<Transition(" In Review ", At(16, 15, 0)),
                       Transition("Merged", At(17, 9, 0)),
                       Transition("Deployed", At(17, 10, 30))>>]

\* history out of order: Deployed recorded before Merged, in cycle 3
DeployBeforeMerge ==
  [id |-> 0, stateType |-> "completed", stateName |-> "Deployed",
   createdAt |-> At(57, 10, 0), startedAt |-> At(57, 11, 0),
   completedAt |-> At(58, 14, 0), estimate |-> 2, labels |-> {"rollback"},
   statusHistory |-> <<Transition("Deployed", At(58, 10, 0)),
                       Transition("Merged", At(58, 14, 0))>>]

\* a 2-point item in review from Monday 9:00 to Wednesday 17:00: 24 business
\* hours, in cycle 3
ThreeDayReview ==
  [id |-> 0, stateType |-> "completed", stateName |-> "Done",
   createdAt |-> At(60, 9, 0), startedAt |-> At(60, 10, 0),
   completedAt |-> At(65, 17, 0), estimate |-> 2, labels |-> {},
   statusHistory |-> <<Transition("Code Review", At(63, 9, 0)),
                       Transition("Done", At(65, 17, 0))>>]

\* a 1-point item started Wednesday 9:00 and completed Thursday 13:30: 12.5
\* business hours, in cycle 3
SlowFix ==
  [id |-> 0, stateType |-> "completed", stateName |-> "Done",
   createdAt |-> At(57, 9, 0), startedAt |-> At(58, 9, 0),
   completedAt |-> At(59, 13, 30), estimate |-> 1, labels |-> {"bug"},
   statusHistory |-> <<Transition("In Progress", At(58, 9, 0))>>]

IssueFixtures ==
  {FullWorkflow, WeekendDeploy, NeverMerged, NeverDeployed, IncidentFix,
   InProgress, OldDeploy, DeployBeforeMerge}

\* the issue list handed to the constructor: ids are unique
WithIds(list) == [i \in 1..Len(list) |-> [list[i] EXCEPT !.id = i]]


(***************************************************************************)
(* Specification SpecClock: calculateBusinessHours on a pair of instants   *)
(***************************************************************************)
ClockHours == {0, 8, 9, 11, 16, 17, 18, 23}
ClockMinutes == {0, 17, 45}
ClockInstants ==
  {At(d, h, m) : d \in 0..MaxClockDay, h \in ClockHours, m \in ClockMinutes}

ClockIdle == clkStart = 0 /\ clkEnd = 0 /\ clkHours = 0

\* nothing has been calculated yet
NoResult == [none |-> TRUE]

StatIdle ==
  /\ stValues = <<>>
  /\ stLevel = 95
  /\ stSummary = NoResult
AccIdle ==
  /\ accActual = <<>>
  /\ accExpected = <<>>
  /\ accLevel = 95
  /\ accOutcome = [kind |-> "return", value |-> ZeroAccuracy(95)]

RateIdle == rtCycleBound = FALSE /\ rtValue = Q(0, 1) /\ rtRating = "Low"

DoraIdle ==
  /\ issues = <<>>
  /\ selectedCycle = NoCycle
  /\ allCycles = <<>>
  /\ now = 0
  /\ doraMetrics = NoResult

\* no entry point has been invoked
NoCall ==
  [name |-> "none", now |-> 0, historicalIssues |-> <<>>, repeated |-> FALSE]

\* a calculator without user and history on which no analysis has been called
AnalysisFresh ==
  /\ codeReviewAnalysis = NoResult
  /\ estimationAnalysis = NoResult
  /\ engCall = NoCall
  /\ engResult = NoResult

\* nothing of the lead-time sample has been computed
LeadIdle ==
  /\ leadTimes = <<>>

TvIdle ==
  /\ tvLevel = 95
  /\ tvDf = 1
  /\ tvValue = 0

VelIdle ==
  /\ velocityTrends = <<>>

AddIdle ==
  /\ addStart = 0 /\ addMid = 0 /\ addEnd = 0
  /\ addWhole = NoResult /\ addFirst = NoResult /\ addSecond = NoResult

HistIdle ==
  /\ combinedIssues = <<>>
  /\ sessions = 0

CacheIdle ==
  /\ cacheTable = {}
  /\ cacheCalls = <<>>
  /\ cacheClock = 0
  /\ sinceClear = <<>>

RefreshIdle ==
  /\ refreshTimers = <<>> /\ activeTimers = {} /\ timerKey = <<>>
  /\ timerCount = 0 /\ clearedTimers = {} /\ ticks = <<>> /\ pending = <<>>
  /\ rejections = <<>> /\ lastTick = NoResult

LaterIdle ==
  /\ LeadIdle /\ TvIdle /\ VelIdle /\ AddIdle /\ HistIdle /\ CacheIdle
  /\ RefreshIdle

AnalysisIdle ==
  /\ userId = NULL
  /\ historicalIssues = <<>>
  /\ historyStore = <<>>
  /\ AnalysisFresh

ClockInit ==
  /\ clkStart \in ClockInstants
  /\ clkEnd \in ClockInstants
  /\ clkHours = 0
  /\ pc = "call"
  /\ StatIdle /\ AccIdle /\ RateIdle /\ DoraIdle /\ AnalysisIdle /\ LaterIdle

ClockCalculate ==
  /\ pc = "call"
  /\ clkHours' = calculateBusinessHours(clkStart, clkEnd)
  /\ pc' = "done"
  /\ UNCHANGED <<clkStart, clkEnd, statVars, accVars, rateVars, doraVars,
                 analysisVars,
                 laterVars>>

SpecClock == ClockInit /\ [][ClockCalculate]_vars

\* C1: from Friday 16:00 to the following Monday 11:00 the result is exactly
\* 4.0 business hours (240 minutes).
C1_FridayToMondayIsFour ==
  (pc = "done" /\ clkStart = At(4, 16, 0) /\ clkEnd = At(7, 11, 0))
    => clkHours = 4 * MinutesPerHour

\* C2: the result is never negative, and it is 0 whenever end <= start
\* (in particular for start = end).
C2_NonNegativeZeroWhenReversed ==
  pc = "done" =>
    /\ clkHours >= 0
    /\ (clkEnd <= clkStart => clkHours = 0)

C2_Witness ==
  /\ pc = "done"
  /\ clkEnd < clkStart
  /\ getDay(clkEnd) \in 1..5
  /\ getDay(clkStart) \in 1..5
  /\ DayOf(clkEnd) < DayOf(clkStart)
  /\ clkHours = 0

\* overlap of [start, end] with the work window of calendar day d
WindowOverlap(d, start, end) ==
  IF d % 7 \in 0..4
    THEN Max(0, Min(end, At(d, WorkEndHour, 0)) - Max(start, At(d, WorkStartHour, 0)))
    ELSE 0

RECURSIVE OverlapSum(_, _, _, _)
OverlapSum(d, lastDay, start, end) ==
  IF d > lastDay THEN 0
  ELSE WindowOverlap(d, start, end) + OverlapSum(d + 1, lastDay, start, end)

SampleValues == {0, 50, 150, 400, 1000}
Levels == {80, 90, 95, 99}

SeqsUpTo(S, n) == UNION {[1..k -> S] : k \in 0..n}

SummaryInit ==
  /\ stValues \in SeqsUpTo(SampleValues, MaxSampleLen)
  /\ stLevel \in Levels
  /\ stSummary = NoResult
  /\ pc = "call"
  /\ ClockIdle /\ AccIdle /\ RateIdle /\ DoraIdle /\ AnalysisIdle /\ LaterIdle

SummaryCalculate ==
  /\ pc = "call"
  /\ stSummary' = calculateStatisticalSummary(stValues, stLevel)
  /\ pc' = "done"
  /\ UNCHANGED <<stValues, stLevel, clockVars, accVars, rateVars, doraVars,
                 analysisVars,
                 laterVars>>

SpecSummary == SummaryInit /\ [][SummaryCalculate]_vars

\* C4: for a sample holding the single value x, standardDeviation = 0 and the
\* confidence interval is [x, x].
C4_SingleValueInterval ==
  (pc = "done" /\ Len(stValues) = 1) =>
    /\ stSummary.standardDeviation = 0
    /\ stSummary.confidenceInterval.lower = stValues[1]
    /\ stSummary.confidenceInterval.upper = stValues[1]

AllEqual(s) == \A i, j \in 1..Len(s) : s[i] = s[j]

\* C5: for a sample of at least 2 non-negative values that are not all equal
\* and a level in {90, 95, 99}, the predictive range contains the confidence
\* interval and both lower bounds are >= 0.
C5_PredictiveContainsConfidence ==
  (/\ pc = "done"
   /\ Len(stValues) >= 2
   /\ ~AllEqual(stValues)
   /\ stLevel \in {90, 95, 99}) =>
    /\ stSummary.predictiveRange.minValue <= stSummary.confidenceInterval.lower
    /\ stSummary.predictiveRange.maxValue >= stSummary.confidenceInterval.upper
    /\ stSummary.predictiveRange.minValue >= 0
    /\ stSummary.confidenceInterval.lower >= 0

C5_Witness ==
  /\ pc = "done"
  /\ Len(stValues) >= 2
  /\ ~AllEqual(stValues)
  /\ stLevel = 90
  /\ stSummary.confidenceInterval.lower > 0
  /\ stSummary.predictiveRange.minValue < stSummary.confidenceInterval.lower
  /\ stSummary.predictiveRange.maxValue > stSummary.confidenceInterval.upper

(***************************************************************************)
(* Specification SpecAccuracy: calculateAccuracyWithConfidence             *)
(***************************************************************************)
ActualHours == {0, 4, 8, 15, 16, 32, 40}
ExpectedHours == {0, 8, 16}

AccuracyInit ==
  /\ accActual \in SeqsUpTo(ActualHours, MaxPairs)
  /\ accExpected \in SeqsUpTo(ExpectedHours, MaxPairs)
  /\ accLevel \in {90, 95}
  /\ accOutcome = [kind |-> "return", value |-> ZeroAccuracy(95)]
  /\ pc = "call"
  /\ ClockIdle /\ StatIdle /\ RateIdle /\ DoraIdle /\ AnalysisIdle /\ LaterIdle

AccuracyCalculate ==
  /\ pc = "call"
  /\ accOutcome' = calculateAccuracyWithConfidence(accActual, accExpected, accLevel)
  /\ pc' = "done"
  /\ UNCHANGED <<accActual, accExpected, accLevel, clockVars, statVars, rateVars,
                 doraVars, analysisVars,
                 laterVars>>

SpecAccuracy == AccuracyInit /\ [][AccuracyCalculate]_vars

WellFormedPairs ==
  /\ Len(accActual) = Len(accExpected)
  /\ Len(accActual) > 0
  /\ \A i \in 1..Len(accExpected) : accExpected[i] > 0

\* clamp(0, 100, (1 - |actual - expected| / expected) * 100) as the exact
\* fraction ExactPairNumerator / expected
ExactPairNumerator(actual, expected) ==
  Max(0, Min(100 * expected, (expected - Abs(actual - expected)) * 100))

RECURSIVE Product(_)
Product(s) == IF s = <<>> THEN 1 ELSE Head(s) * Product(Tail(s))

\* the sum of the exact per-pair accuracies, over the denominator Product(expected)
ExactAccuracySum ==
  SumSeq([i \in 1..Len(accActual) |->
            ExactPairNumerator(accActual[i], accExpected[i])
              * (Product(accExpected) \div accExpected[i])])

C7_MismatchIsDistinguishable ==
  (pc = "done" /\ Len(accActual) # Len(accExpected)) =>
    accOutcome # calculateAccuracyWithConfidence(<<>>, <<>>, accLevel)

\* C7 amended: with different lengths the call returns normally the zero
\* result (accuracy 0, interval [0, 0], sampleSize 0), the same value it
\* returns for an empty sample.
C7_MismatchReturnsZeroResult ==
  (pc = "done" /\ Len(accActual) # Len(accExpected)) =>
    /\ accOutcome.kind = "return"
    /\ accOutcome.value.accuracy = 0
    /\ accOutcome.value.sampleSize = 0
    /\ accOutcome.value.confidenceInterval =
          [lower |-> 0, upper |-> 0, confidence |-> accLevel]

C7_Witness ==
  /\ pc = "done"
  /\ Len(accActual) = 2 /\ Len(accExpected) = 1
  /\ accActual[1] = accExpected[1]
  /\ accOutcome.value.sampleSize = 0

(***************************************************************************)
(* Specification SpecDora: calculateDORAMetrics on a constructed calculator*)
(***************************************************************************)
DoraInit ==
  /\ issues \in {WithIds(list) : list \in SeqsUpTo(IssueFixtures, MaxIssues)}
  /\ selectedCycle \in {NoCycle, Cycle3, Cycle2, Cycle1}
  /\ allCycles \in {<<>>, CycleList}
  /\ now \in Clock
  /\ doraMetrics = NoResult
  /\ pc = "call"
  /\ ClockIdle /\ StatIdle /\ AccIdle /\ RateIdle /\ AnalysisIdle /\ LaterIdle

DoraCalculate ==
  /\ pc = "call"
  /\ doraMetrics' = calculateDORAMetrics(issues, selectedCycle, allCycles, now)
  /\ pc' = "done"
  /\ UNCHANGED <<issues, selectedCycle, allCycles, now,
                 clockVars, statVars, accVars, rateVars, analysisVars,
                 laterVars>>

\* the dashboard's next call on the same calculator (DORADashboard.tsx 477-480)
ReviewCalculate ==
  /\ pc = "done"
  /\ codeReviewAnalysis' = calculateCodeReviewAnalysis(issues, now)
  /\ pc' = "reviewed"
  /\ UNCHANGED <<doraVars, clockVars, statVars, accVars, rateVars,
                 userId, historicalIssues, historyStore, estimationAnalysis,
                 engCall, engResult,
                 laterVars>>

SpecDora == DoraInit /\ [][DoraCalculate \/ ReviewCalculate]_vars

HasTransition(issue, toState) ==
  \E k \in 1..Len(issue.statusHistory) : issue.statusHistory[k].toState = toState

TransitionTime(issue, toState) ==
  issue.statusHistory[FindFirst(issue.statusHistory,
                                LAMBDA entry : entry.toState = toState)].timestamp

\* a completed item of the reporting window with a Merged transition at m and
\* a Deployed transition at d, m < d
HasDeployInterval(issue) ==
  /\ IsCompleted(issue)
  /\ issue.completedAt >= now - ThirtyDays
  /\ HasTransition(issue, "Merged")
  /\ HasTransition(issue, "Deployed")
  /\ TransitionTime(issue, "Merged") < TransitionTime(issue, "Deployed")

DeployInterval(issue) ==
  calculateBusinessHours(TransitionTime(issue, "Merged"),
                         TransitionTime(issue, "Deployed"))

\* C8: every completed item with a Merged transition at m and a Deployed
\* transition at d, m < d, enters the time-to-deploy sample with the value
\* calculateBusinessHours(m, d); an item lacking either transition is left
\* out.  So the sample size is the number of such items and the reported
\* average is the mean of their values.
C8_DeploySampleIsAllIntervals ==
  pc = "done" =>
    LET measured == SelectSeq(issues, HasDeployInterval)
        sample   == MapSeq(measured, DeployInterval)
    IN  /\ doraMetrics.timeToDeploy.details.measuredDeployments = Len(measured)
        /\ doraMetrics.timeToDeploy.details.averageDeployTime =
             Round(Q(AverageHours(sample).n * 10, AverageHours(sample).d))

InSelectedCycle(issue) == CompletedInCycle(issue, selectedCycle)

\* C9: with a selected cycle inside which exactly 3 items were completed the
\* deployment frequency is rated Low.
C9_ThreeInCycleIsLow ==
  (/\ pc = "done"
   /\ selectedCycle # NoCycle
   /\ Len(SelectSeq(issues, InSelectedCycle)) = 3) =>
    doraMetrics.deploymentFrequency.rating = "Low"

\* the number of items with state type 'completed' whose completedAt lies in
\* [from, to]
CompletedBetween(from, to) ==
  Len(SelectSeq(issues, LAMBDA issue :
        IsCompleted(issue) /\ issue.completedAt >= from /\ issue.completedAt <= to))

\* C11: deployment frequency counts completed items.  Cycle-bound, the value
\* is the number of items with state type 'completed' whose completedAt lies
\* in [cycle.startsAt, cycle.endsAt]; time-bound, it is the number of items
\* completed within the 30-day window divided by 30 (to one decimal, as
\* reported), so that two items completed the same day count as two.
C11_FrequencyCountsItems ==
  pc = "done" =>
    IF selectedCycle # NoCycle
      THEN doraMetrics.deploymentFrequency.value =
             Q(CompletedBetween(selectedCycle.startsAt, selectedCycle.endsAt), 1)
      ELSE doraMetrics.deploymentFrequency.value =
             Q(Round(Q(CompletedBetween(now - ThirtyDays, now) * 10, 30)), 10)

\* ((current - previous) / previous) * 100 rounded to an integer, with the
\* sign inverted where lower is better, and 0 when previous is 0
ClaimedTrend(current, previous, inverted) ==
  IF previous.n = 0 THEN 0
  ELSE LET rounded ==
             Round(Q((current.n * previous.d - previous.n * current.d) * 100,
                     current.d * previous.n))
       IN  IF inverted THEN 0 - rounded ELSE rounded

\* the mean review time of the returned tasks merged in [from, to)
ReviewAverageBetween(from, to) ==
  AverageReviewTime(SelectSeq(codeReviewAnalysis.tasks, LAMBDA task :
    task.mergedAt >= from /\ task.mergedAt < to))

ZeroAndLow(metric) == metric.value.n = 0 /\ metric.rating = "Low"

\* C13: a metric whose input sample is empty has the value 0 and the lowest
\* rating, 'Low': lead time, change failure rate, time to recovery, time to
\* deploy, deployment frequency and the average code-review time.
C13_EmptySampleIsLow ==
  pc = "reviewed" =>
    LET V(what) == PeriodValue(what, issues, selectedCycle, allCycles, now)
        recentIssues == getIssuesInPeriod(issues, 30, now)
    IN  /\ LeadTimes(issues, now) = <<>> => ZeroAndLow(doraMetrics.leadTimeForChanges)
        /\ V("deployedTasks") = <<>> => ZeroAndLow(doraMetrics.changeFailureRate)
        /\ getIncidentRecoveryTimes(recentIssues) = <<>>
             => ZeroAndLow(doraMetrics.timeToRecovery)
        /\ V("deployTimes") = <<>> => ZeroAndLow(doraMetrics.timeToDeploy)
        /\ V("deploymentFrequency").n = 0 => ZeroAndLow(doraMetrics.deploymentFrequency)
        /\ codeReviewAnalysis.tasks = <<>>
             => /\ codeReviewAnalysis.averageTimeInReview.value = 0
                /\ codeReviewAnalysis.averageTimeInReview.rating = "Low"

(***************************************************************************)
(* Specification SpecEstimation: loadHistoricalData, then                  *)
(* calculateEstimationAnalysis, on a constructed calculator                *)
(***************************************************************************)
EstimationFixtures ==
  {FullWorkflow, ThreeDayReview, SlowFix, IncidentFix, NeverMerged, InProgress,
   OldDeploy}

HistoryBase == 100

\* rows saved by earlier sessions: their issue ids are those of the issues of
\* that time
StoredRows(list, firstId) ==
  [i \in 1..Len(list) |-> HistoryRow([list[i] EXCEPT !.id = firstId + i - 1])]

HistoryStores ==
  {<<>>,
   StoredRows(<<OldDeploy>>, HistoryBase),
   StoredRows(<<NeverMerged, OldDeploy, InProgress, ThreeDayReview>>, HistoryBase),
   StoredRows(<<SlowFix, OldDeploy>>, 1)}

\* item k of a backlog: one point, started on the Wednesday of week k at 9:00
\* and completed the next day, after 12.5 to 15.5 business hours
BacklogItem(k) ==
  [id |-> 0, stateType |-> "completed", stateName |-> "Done",
   createdAt |-> At(7 * k, 9, 0), startedAt |-> At(7 * k + 2, 9, 0),
   completedAt |-> At(7 * k + 3, 13 + (k % 4), 30), estimate |-> 1,
   labels |-> {}, statusHistory |-> <<>>]

\* the backlog in the order of completion, in the reverse order and rotated
Backlogs ==
  {[i \in 1..MaxBacklog |-> BacklogItem(i)],
   [i \in 1..MaxBacklog |-> BacklogItem(MaxBacklog + 1 - i)],
   [i \in 1..MaxBacklog |-> BacklogItem(((i + 4) % MaxBacklog) + 1)]}

EstimationInit ==
  /\ \/ /\ issues \in {WithIds(list) :
                         list \in SeqsUpTo(EstimationFixtures, MaxEstimated)}
        /\ userId \in {NULL, 1}
        /\ historyStore \in HistoryStores
     \/ /\ issues \in {WithIds(list) : list \in Backlogs}
        /\ userId = NULL
        /\ historyStore = <<>>
  /\ historicalIssues = <<>>
  /\ selectedCycle = NoCycle
  /\ allCycles = <<>>
  /\ now = 0
  /\ doraMetrics = NoResult
  /\ AnalysisFresh
  /\ pc = "call"
  /\ ClockIdle /\ StatIdle /\ AccIdle /\ RateIdle /\ LaterIdle

\* await calculator.loadHistoricalData() (DORADashboard.tsx line 475)
EstimationLoad ==
  /\ pc = "call"
  /\ \E failed \in BOOLEAN :
       historicalIssues' =
         loadHistoricalData(userId, historicalIssues, historyStore, failed)
  /\ pc' = "loaded"
  /\ UNCHANGED <<doraVars, clockVars, statVars, accVars, rateVars, userId,
                 historyStore, codeReviewAnalysis, estimationAnalysis,
                 engCall, engResult,
                 laterVars>>

EstimationCalculate ==
  /\ pc \in {"call", "loaded"}
  /\ estimationAnalysis' = calculateEstimationAnalysis(issues, historicalIssues)
  /\ pc' = "estimated"
  /\ UNCHANGED <<doraVars, clockVars, statVars, accVars, rateVars, userId,
                 historicalIssues, historyStore, codeReviewAnalysis,
                 engCall, engResult,
                 laterVars>>

SpecEstimation ==
  EstimationInit /\ [][EstimationLoad \/ EstimationCalculate]_vars

\* the items the analysis works on
AnalysedIssues == getAllCompletedIssuesWithEstimates(issues, historicalIssues)

IsListedBottleneck(issue) ==
  \E k \in 1..Len(estimationAnalysis.bottlenecks) :
    estimationAnalysis.bottlenecks[k].issueId = issue.id

\* a completed 2-point item whose lead time is exactly 24 business hours
IsBoundaryItem(issue) ==
  /\ issue.estimate = 2
  /\ getLeadTimeInHours(issue) = 24 * MinutesPerHour

ObservedHistory ==
  SelectSeq(historicalIssues, LAMBDA issue : getLeadTimeInHours(issue) > 0)

\* the team's historical baseline: observed business minutes per point, the
\* fraction of the summed lead times over the summed estimates
BaselinePerPoint ==
  Q(SumSeq(MapSeq(ObservedHistory, getLeadTimeInHours)),
    SumSeq(MapSeq(ObservedHistory, LAMBDA issue : issue.estimate)))

\* the expected duration C15 gives an item of size s, a fraction of minutes
ClaimedExpected(s) ==
  IF ObservedHistory # <<>>
    THEN Q(s * BaselinePerPoint.n, BaselinePerPoint.d)
    ELSE Q(s * HoursPerPoint * MinutesPerHour, 1)

ClaimedOverrun(issue) ==
  LET expected == ClaimedExpected(issue.estimate)
      actual   == getLeadTimeInHours(issue)
  IN  Round(Q((actual * expected.d - expected.n) * 100, expected.n))

\* C15: with a historical sample the expected duration of an item of size s,
\* from which its overrun and its place in the bottleneck list follow, is
\* s times the team's historical baseline; it is the fixed s * 8 hours only
\* without a historical sample.
C15_ExpectedFollowsHistoricalBaseline ==
  pc = "estimated" =>
    \A i \in 1..Len(AnalysedIssues) :
      LET issue == AnalysedIssues[i]
      IN  getLeadTimeInHours(issue) > 0 =>
            /\ IsListedBottleneck(issue)
                 <=> (RoundHours(getLeadTimeInHours(issue)) > 0
                        /\ ClaimedOverrun(issue) > 50)
            /\ \A k \in 1..Len(estimationAnalysis.bottlenecks) :
                 estimationAnalysis.bottlenecks[k].issueId = issue.id
                   => estimationAnalysis.bottlenecks[k].overrun
                        = ClaimedOverrun(issue)

\* the issue list without the items completed outside the selected cycle
WithoutOutsideItems ==
  SelectSeq(issues, LAMBDA issue :
    issue.completedAt = NULL
      \/ (/\ issue.completedAt >= selectedCycle.startsAt
          /\ issue.completedAt <= selectedCycle.endsAt))

\* C18: with a bounding cycle selected, the current value of each of the five
\* metrics depends only on the items completed within [cycle.startsAt,
\* cycle.endsAt]: it is the value the calculator returns for the issue list
\* from which the items completed outside the cycle are removed.
C18_CycleValuesIgnoreOutsideItems ==
  (pc = "done" /\ selectedCycle # NoCycle) =>
    LET inside == calculateDORAMetrics(WithoutOutsideItems, selectedCycle,
                                       allCycles, now)
    IN  /\ doraMetrics.deploymentFrequency.value = inside.deploymentFrequency.value
        /\ doraMetrics.leadTimeForChanges.value = inside.leadTimeForChanges.value
        /\ doraMetrics.changeFailureRate.value = inside.changeFailureRate.value
        /\ doraMetrics.timeToRecovery.value = inside.timeToRecovery.value
        /\ doraMetrics.timeToDeploy.value = inside.timeToDeploy.value

\* the selected cycle is in the supplied list and an older cycle follows it
HasPrecedingCycle ==
  LET i == FindCycleIndex(allCycles, selectedCycle)
  IN  i >= 0 /\ i + 2 <= Len(allCycles)

\* C19: cycle-bound, when the selected cycle has a preceding cycle in the
\* list, every trend is the one computed against that preceding cycle,
\* wherever the selected cycle stands in the list: the trends are those the
\* calculator returns when a newer cycle stands in front of the same list.
C19_TrendAgainstPrecedingCycle ==
  (pc = "done" /\ selectedCycle # NoCycle /\ HasPrecedingCycle) =>
    LET newer == [id |-> 5, number |-> 4,
                  startsAt |-> At(70, 0, 0), endsAt |-> At(83, 23, 59)]
        shifted == calculateDORAMetrics(issues, selectedCycle,
                                        <<newer>> \o allCycles, now)
    IN  /\ doraMetrics.deploymentFrequency.trend = shifted.deploymentFrequency.trend
        /\ doraMetrics.leadTimeForChanges.trend = shifted.leadTimeForChanges.trend
        /\ doraMetrics.changeFailureRate.trend = shifted.changeFailureRate.trend
        /\ doraMetrics.timeToRecovery.trend = shifted.timeToRecovery.trend
        /\ doraMetrics.timeToDeploy.trend = shifted.timeToDeploy.trend

\* the issue a review task was built from
IssueOfTask(task) == issues[FindFirst(issues, LAMBDA issue : issue.id = task.issueId)]

\* C20: every review task whose review start came from the fallback
\* heuristic (not from a review and a merge transition of statusHistory) has
\* a timeInReview of at least 2 hours.
C20_FallbackReviewAtLeastTwoHours ==
  pc = "reviewed" =>
    \A k \in 1..Len(codeReviewAnalysis.tasks) :
      LET task == codeReviewAnalysis.tasks[k]
      IN  ~ReviewInterval(IssueOfTask(task)).fromHistory
            => task.timeInReview >= MinimumReviewTime

\* the rounded overrun percentage of an analysed item
ItemOverrun(issue) ==
  Overrun(getLeadTimeInHours(issue), ExpectedMinutes(issue.estimate))

\* the analysed items that exceed the threshold: an actual time and an overrun
\* of more than 50 percent
QualifyingItems ==
  SelectSeq(AnalysedIssues, LAMBDA issue :
    RoundHours(getLeadTimeInHours(issue)) > 0 /\ ItemOverrun(issue) > 50)

\* the multiset of the values of a sequence of numbers
CountOf(s, x) == Cardinality({i \in 1..Len(s) : s[i] = x})

ListedOverruns ==
  [k \in 1..Len(estimationAnalysis.bottlenecks) |->
     estimationAnalysis.bottlenecks[k].overrun]

\* C22: the bottleneck list has at most 10 entries, in non-increasing order of
\* overrun, each of them a qualifying item, and they are the 10 (or fewer)
\* highest: the list has min(10, qualifying) entries and no qualifying item
\* left out has a strictly larger overrun than a listed one.
C22_TopTenByOverrun ==
  pc = "estimated" =>
    LET b == estimationAnalysis.bottlenecks
        overruns == MapSeq(QualifyingItems, ItemOverrun)
    IN  /\ Len(b) <= 10
        /\ Len(b) = Min(10, Len(QualifyingItems))
        /\ \A k \in 1..(Len(b) - 1) : b[k].overrun >= b[k + 1].overrun
        /\ \A k \in 1..Len(b) :
             /\ \E i \in 1..Len(QualifyingItems) :
                  /\ QualifyingItems[i].id = b[k].issueId
                  /\ ItemOverrun(QualifyingItems[i]) = b[k].overrun
             /\ CountOf(ListedOverruns, b[k].overrun)
                  <= CountOf(overruns, b[k].overrun)
        /\ \A i \in 1..Len(overruns) : \A k \in 1..Len(b) :
             overruns[i] > b[k].overrun =>
               CountOf(ListedOverruns, overruns[i]) = CountOf(overruns, overruns[i])

\* more than 10 items qualify, 10 are listed, and an item left out has the
\* same overrun as the last one listed
C22_Witness ==
  /\ pc = "estimated"
  /\ Len(QualifyingItems) > 10
  /\ Len(estimationAnalysis.bottlenecks) = 10
  /\ estimationAnalysis.bottlenecks[1].overrun
       > estimationAnalysis.bottlenecks[10].overrun
  /\ CountOf(MapSeq(QualifyingItems, ItemOverrun),
             estimationAnalysis.bottlenecks[10].overrun)
       > CountOf(ListedOverruns, estimationAnalysis.bottlenecks[10].overrun)

\* C27: in the velocity trends of the estimation analysis planned and actual
\* are equal in every weekly bucket and the accuracy of every bucket is 100.
C27_VelocityAccuracyAlwaysHundred ==
  pc = "estimated" =>
    \A k \in 1..Len(estimationAnalysis.velocityTrends) :
      /\ estimationAnalysis.velocityTrends[k].planned
           = estimationAnalysis.velocityTrends[k].actual
      /\ estimationAnalysis.velocityTrends[k].accuracy = 100

\* an analysis of a list with a completed item without estimate, which the
\* sample leaves out, and with buckets of items with estimates
C27_Witness ==
  /\ pc = "estimated"
  /\ \E i \in 1..Len(issues) : IsCompleted(issues[i]) /\ issues[i].estimate = 0
  /\ Len(estimationAnalysis.velocityTrends) >= 1
  /\ estimationAnalysis.velocityTrends[1].planned > 0
  /\ estimationAnalysis.velocityTrends[1].accuracy = 100

(***************************************************************************)
(* Specification SpecEngine: one calculator and one numeric array, on      *)
(* which the entry points are invoked in any order while the clock         *)
(* advances and the historical sample is loaded                            *)
(***************************************************************************)
EngineFixtures == {FullWorkflow, OldDeploy, SlowFix}

EngineSamples == {<<400, 50, 150>>, <<150, 150>>, <<1000>>}

LaterClock == At(95, 12, 0)

EngineInit ==
  /\ \/ /\ issues \in {WithIds(list) :
                         list \in SeqsUpTo(EngineFixtures, MaxEngineIssues)}
        /\ stValues = <<>>
     \/ /\ issues = <<>>
        /\ stValues \in EngineSamples
  /\ \/ selectedCycle = NoCycle /\ allCycles = <<>>
     \/ selectedCycle = Cycle3 /\ allCycles = CycleList
  /\ \/ userId = NULL /\ historyStore = <<>>
     \/ userId = 1 /\ historyStore = StoredRows(<<OldDeploy>>, HistoryBase)
  /\ historicalIssues = <<>>
  /\ now \in Clock
  /\ doraMetrics = NoResult
  /\ AnalysisFresh
  /\ stLevel = 95
  /\ stSummary = NoResult
  /\ pc = "call"
  /\ ClockIdle /\ AccIdle /\ RateIdle /\ LaterIdle

EngineCall(name) ==
  /\ engCall' = [name |-> name, now |-> now,
                 historicalIssues |-> historicalIssues,
                 repeated |-> (engCall.name = name)]
  /\ engResult' = Invoke(name, issues, selectedCycle, allCycles,
                         historicalIssues, now, stValues)
  /\ stValues' =
       IF name \in {"calculateStatisticalSummary", "calculateMedian"}
         THEN ArgumentAfterSortedCopy(stValues)
         ELSE stValues
  /\ UNCHANGED <<doraVars, stLevel, stSummary, clockVars, accVars, rateVars,
                 userId, historicalIssues, historyStore, codeReviewAnalysis,
                 estimationAnalysis, pc,
                 laterVars>>

EngineDoraMetrics == EngineCall("calculateDORAMetrics")
EngineLeadTimeAnalysis == EngineCall("calculateLeadTimeAnalysis")
EngineEstimationAnalysis == EngineCall("calculateEstimationAnalysis")
EngineCodeReviewAnalysis == EngineCall("calculateCodeReviewAnalysis")
EngineStatisticalSummary == EngineCall("calculateStatisticalSummary")
EngineMedian == EngineCall("calculateMedian")

\* time passes between two invocations
EngineTick ==
  /\ now < LaterClock
  /\ now' = LaterClock
  /\ UNCHANGED <<issues, selectedCycle, allCycles, doraMetrics, clockVars,
                 statVars, accVars, rateVars, analysisVars, pc,
                 laterVars>>

EngineLoad ==
  /\ \E failed \in BOOLEAN :
       historicalIssues' =
         loadHistoricalData(userId, historicalIssues, historyStore, failed)
  /\ UNCHANGED <<doraVars, clockVars, statVars, accVars, rateVars, userId,
                 historyStore, codeReviewAnalysis, estimationAnalysis,
                 engCall, engResult, pc,
                 laterVars>>

EngineNext ==
  \/ EngineDoraMetrics
  \/ EngineLeadTimeAnalysis
  \/ EngineEstimationAnalysis
  \/ EngineCodeReviewAnalysis
  \/ EngineStatisticalSummary
  \/ EngineMedian
  \/ EngineTick
  \/ EngineLoad

SpecEngine == EngineInit /\ [][EngineNext]_vars

ClockReaders ==
  {"calculateDORAMetrics", "calculateLeadTimeAnalysis",
   "calculateCodeReviewAnalysis"}

HistoryReaders == {"calculateLeadTimeAnalysis", "calculateEstimationAnalysis"}

\* an entry point is invoked again, on the same calculator and arrays
RepeatedCall == engCall.name # "none" /\ engCall'.name = engCall.name

LeadStates == {"Code Review", " In Review ", "In Progress", "Merged"}

\* Wednesday 9:00, Thursday 15:00, Saturday 10:00
LeadStamps == {At(58, 9, 0), At(59, 15, 0), At(61, 10, 0)}

LeadEntries == {Transition(s, t) : s \in LeadStates, t \in LeadStamps}

LeadItem(history, startedAt, completedAt, estimate) ==
  [id |-> 1, stateType |-> "completed", stateName |-> "Done",
   createdAt |-> At(56, 9, 0), startedAt |-> startedAt,
   completedAt |-> completedAt, estimate |-> estimate, labels |-> {},
   statusHistory |-> history]

LeadTimeInit ==
  /\ \E history \in SeqsUpTo(LeadEntries, MaxHistory),
        startedAt \in {NULL, At(57, 9, 0)},
        completedAt \in {At(58, 9, 0), At(60, 16, 0), At(62, 12, 0)},
        estimate \in {0, 2} :
       issues = <<LeadItem(history, startedAt, completedAt, estimate)>>
  /\ selectedCycle = NoCycle
  /\ allCycles = <<>>
  /\ now \in Clock
  /\ doraMetrics = NoResult
  /\ leadTimes = <<>>
  /\ pc = "call"
  /\ ClockIdle /\ StatIdle /\ AccIdle /\ RateIdle /\ AnalysisIdle
  /\ TvIdle /\ VelIdle /\ AddIdle /\ HistIdle /\ CacheIdle /\ RefreshIdle

\* lines 1914-1921: recentIssuesWithEstimates.map(getLeadTimeInHours)
\*                    .filter(time => time > 0)
LeadTimeCalculate ==
  /\ pc = "call"
  /\ leadTimes' = LeadTimes(issues, now)
  /\ pc' = "done"
  /\ UNCHANGED <<doraVars, clockVars, statVars, accVars, rateVars, analysisVars,
                 tvVars, velVars, addVars, histVars, cacheVars, refreshVars>>

SpecLeadTime == LeadTimeInit /\ [][LeadTimeCalculate]_vars

\* the review states named by the claim
IsClaimedReviewState(entry) ==
  LowerTrim(entry.toState) \in
    {"code review", "in review", "review", "pr review", "reviewing"}

\* review-start as claimed: the timestamp of the first entry, in array order,
\* that enters a review state, else startedAt (NULL when absent)
ClaimedReviewStart(issue) ==
  LET reviews == {i \in 1..Len(issue.statusHistory) :
                    IsClaimedReviewState(issue.statusHistory[i])}
  IN  IF reviews # {}
        THEN issue.statusHistory[CHOOSE i \in reviews :
                                   \A j \in reviews : i <= j].timestamp
        ELSE issue.startedAt

\* C21: the lead-time sample of an item holds the business hours from its
\* review-start (first review entry in array order, else startedAt) to
\* completedAt, and holds nothing (not a 0) when review-start is absent or
\* completedAt is not strictly after it.
C21_LeadTimeFromFirstReviewEntry ==
  pc = "done" =>
    LET issue == issues[1]
        reviewStart == ClaimedReviewStart(issue)
        hours == calculateBusinessHours(reviewStart, issue.completedAt)
    IN  /\ \A k \in 1..Len(leadTimes) : leadTimes[k] > 0
        /\ (reviewStart = NULL \/ issue.completedAt <= reviewStart)
             => leadTimes = <<>>
        /\ (/\ issue.estimate > 0
            /\ reviewStart # NULL
            /\ issue.completedAt > reviewStart
            /\ hours > 0)
             => leadTimes = <<hours>>

\* the first review entry of the array is later than a second one, the item
\* is in the sample with the hours counted from the first entry
C21_Witness ==
  /\ pc = "done"
  /\ Len(issues[1].statusHistory) = 2
  /\ IsClaimedReviewState(issues[1].statusHistory[1])
  /\ IsClaimedReviewState(issues[1].statusHistory[2])
  /\ issues[1].statusHistory[1].timestamp > issues[1].statusHistory[2].timestamp
  /\ leadTimes = <<calculateBusinessHours(issues[1].statusHistory[1].timestamp,
                                          issues[1].completedAt)>>

(***************************************************************************)
(* Specification SpecTValue: getTValue on a level and degrees of freedom   *)
(***************************************************************************)
\* the levels asked for: the three tabulated ones and two others
TLevels == {90, 95, 99, 80, 0}

\* the degrees of freedom asked for: every small one, and those around the
\* rows 100 and 1000
TDegrees == (0..MaxSmallDf) \cup {99, 100, 101, 500, 999, 1000, 1001, 5000}

TValueInit ==
  /\ tvLevel \in TLevels
  /\ tvDf \in TDegrees
  /\ tvValue = 0
  /\ pc = "call"
  /\ ClockIdle /\ StatIdle /\ AccIdle /\ RateIdle /\ DoraIdle /\ AnalysisIdle
  /\ LeadIdle /\ VelIdle /\ AddIdle /\ HistIdle /\ CacheIdle /\ RefreshIdle

TValueLookup ==
  /\ pc = "call"
  /\ tvValue' = getTValue(tvLevel, tvDf)
  /\ pc' = "done"
  /\ UNCHANGED <<tvLevel, tvDf, clockVars, statVars, accVars, rateVars, doraVars,
                 analysisVars, leadVars, velVars, addVars, histVars,
                 cacheVars, refreshVars>>

SpecTValue == TValueInit /\ [][TValueLookup]_vars

\* the rows the tables have
TabulatedDf == (1..10) \cup {15, 20, 25, 30, 40, 50, 60, 100, 1000}

\* the row the lookup is said to use
ClaimedRow(df) ==
  IF df >= 1000 THEN 1000
  ELSE CHOOSE r \in TabulatedDf : r >= df /\ \A q \in TabulatedDf : q >= df => r <= q

\* the entry of a row in the table of a level
Entry(level, row) ==
  LET i == CHOOSE k \in 1..Len(AvailableDf) : AvailableDf[k] = row
  IN  IF level = 90 THEN TTable90[i]
      ELSE IF level = 99 THEN TTable99[i]
      ELSE TTable95[i]

\* C23: the value returned is the entry, in the table of the level (the 95
\* table for a level other than 90, 95 and 99), of the smallest tabulated row
\* that is >= the degrees of freedom, the row 1000 from 1000 on; it is a
\* function of the two inputs, and no smaller degrees of freedom give a
\* smaller value.
C23_CeilingRowOfTheLevel ==
  pc = "done" =>
    /\ tvValue = Entry(tvLevel, ClaimedRow(tvDf))
    /\ \A d \in TDegrees : d <= tvDf => getTValue(tvLevel, d) >= tvValue

\* a lookup between two rows, at a level that falls back to the 95 table
C23_Witness ==
  /\ pc = "done"
  /\ tvLevel = 80
  /\ tvDf = 41
  /\ tvValue = 2009

(***************************************************************************)
(* Specification SpecVelocity: calculateVelocityTrends on a list of issues *)
(***************************************************************************)
\* an item completed on the Wednesday of a week; an estimate of 0 stands for
\* an item without estimate
VelocityItem(week, estimate) ==
  [id |-> week, stateType |-> "completed", stateName |-> "Done",
   createdAt |-> At(7 * week, 9, 0), startedAt |-> At(7 * week + 1, 9, 0),
   completedAt |-> At(7 * week + 2, 10, 0), estimate |-> estimate,
   labels |-> {}, statusHistory |-> <<>>]

\* every third week delivers an item without estimate
WeekEstimate(week) == IF week % 3 = 0 THEN 0 ELSE 2 + (week % 2)

\* one item for each week of a range, in either order, and one more item:
\* in a week of the range, with or without estimate, or not completed
VelocityInputs ==
  {LET first == range[1]
       last  == range[2]
       n     == last - first + 1
       base  == [i \in 1..n |->
                  VelocityItem(IF ascending THEN first + i - 1 ELSE last - i + 1,
                               WeekEstimate(IF ascending THEN first + i - 1
                                            ELSE last - i + 1))]
   IN  IF extraWeek = 0
         THEN base \o <<[VelocityItem(first, extra) EXCEPT !.completedAt = NULL]>>
         ELSE base \o <<VelocityItem(first + ((extraWeek - 1) % n), extra)>> :
     range \in {r \in (1..MaxWeeks) \X (1..MaxWeeks) : r[1] <= r[2]},
     ascending \in BOOLEAN,
     extraWeek \in 0..2, extra \in {0, 3}}

VelocityInit ==
  /\ issues \in VelocityInputs
  /\ selectedCycle = NoCycle
  /\ allCycles = <<>>
  /\ now = LaterClock
  /\ doraMetrics = NoResult
  /\ velocityTrends = <<>>
  /\ pc = "call"
  /\ ClockIdle /\ StatIdle /\ AccIdle /\ RateIdle /\ AnalysisIdle
  /\ LeadIdle /\ TvIdle /\ AddIdle /\ HistIdle /\ CacheIdle /\ RefreshIdle

VelocityCalculate ==
  /\ pc = "call"
  /\ velocityTrends' = calculateVelocityTrends(issues)
  /\ pc' = "done"
  /\ UNCHANGED <<doraVars, clockVars, statVars, accVars, rateVars, analysisVars,
                 leadVars, tvVars, addVars, histVars, cacheVars, refreshVars>>

SpecVelocity == VelocityInit /\ [][VelocityCalculate]_vars

\* the week-start keys of the completed items
WeekKeys ==
  {WeekStart(issues[i].completedAt) :
     i \in {j \in 1..Len(issues) : issues[j].completedAt # NULL}}

\* the 8 latest of them, or all of them
LatestWeekKeys ==
  {key \in WeekKeys : Cardinality({later \in WeekKeys : later > key}) < 8}

\* C24: at most 8 buckets are returned, one for each of the 8 latest
\* week-start keys and in ascending order of the key; the accuracy of a bucket
\* is min(actual, planned) / planned * 100, and 0 when planned is 0, so that
\* it lies between 0 and 100.
C24_LastEightWeeksCappedAccuracy ==
  pc = "done" =>
    /\ Len(velocityTrends) <= 8
    /\ Len(velocityTrends) = Cardinality(LatestWeekKeys)
    /\ {velocityTrends[k].period : k \in 1..Len(velocityTrends)} = LatestWeekKeys
    /\ \A k \in 1..(Len(velocityTrends) - 1) :
         velocityTrends[k].period < velocityTrends[k + 1].period
    /\ \A k \in 1..Len(velocityTrends) :
         LET week == velocityTrends[k]
         IN  /\ week.planned = 0 => week.accuracy = 0
             /\ week.planned # 0 =>
                  week.accuracy * week.planned
                    = Min(week.actual, week.planned) * 100
             /\ 0 <= week.accuracy /\ week.accuracy <= 100

\* more than 8 weeks come in, 8 buckets come out; in one of them actual
\* exceeds planned, and one has nothing planned
C24_Witness ==
  /\ pc = "done"
  /\ Cardinality(WeekKeys) > 8
  /\ Len(velocityTrends) = 8
  /\ \E k \in 1..8 :
       /\ velocityTrends[k].planned > 0
       /\ velocityTrends[k].actual > velocityTrends[k].planned
       /\ velocityTrends[k].accuracy = 100
  /\ \E k \in 1..8 :
       velocityTrends[k].planned = 0 /\ velocityTrends[k].accuracy = 0

(***************************************************************************)
(* Specification SpecAdditive: calculateBusinessHours on an interval and   *)
(* on its two parts                                                        *)
(***************************************************************************)
\* a Friday, the Saturday and the Monday after it; the start and the last
\* hour of the work window, at minutes that do not divide the hour evenly
AdditiveInstants ==
  {At(d, h, m) : d \in {4, 5, 7}, h \in {9, 16}, m \in {0, 34, 48, 59}}

AdditiveInit ==
  /\ addStart \in AdditiveInstants
  /\ addMid \in {t \in AdditiveInstants : addStart <= t}
  /\ addEnd \in {t \in AdditiveInstants : addMid <= t}
  /\ addWhole = NoResult /\ addFirst = NoResult /\ addSecond = NoResult
  /\ pc = "call"
  /\ ClockIdle /\ StatIdle /\ AccIdle /\ RateIdle /\ DoraIdle /\ AnalysisIdle
  /\ LeadIdle /\ TvIdle /\ VelIdle /\ HistIdle /\ CacheIdle /\ RefreshIdle

AdditiveCalculate ==
  /\ pc = "call"
  /\ addWhole' = calculateBusinessHoursDouble(addStart, addEnd)
  /\ addFirst' = calculateBusinessHoursDouble(addStart, addMid)
  /\ addSecond' = calculateBusinessHoursDouble(addMid, addEnd)
  /\ pc' = "done"
  /\ UNCHANGED <<addStart, addMid, addEnd, clockVars, statVars, accVars,
                 rateVars, doraVars, analysisVars, leadVars, tvVars, velVars,
                 histVars, cacheVars, refreshVars>>

SpecAdditive == AdditiveInit /\ [][AdditiveCalculate]_vars

Version(issue, id, title, updatedAt) ==
  [id |-> id, title |-> title, updatedAt |-> updatedAt] @@ issue

\* issue 7 after its completion and after a later edit of its title; issue 8;
\* issue 9 in progress and after its completion
Versions ==
  {Version(OldDeploy, 7, "Deploy", At(18, 12, 0)),
   Version(OldDeploy, 7, "Deploy to production", At(30, 12, 0)),
   Version(FullWorkflow, 8, "Workflow", At(61, 12, 0)),
   Version(InProgress, 9, "Fix", At(58, 12, 0)),
   Version(SlowFix, 9, "Fix", At(62, 12, 0))}

\* what a load may return: one or two issues
SessionLists ==
  {<<v>> : v \in Versions}
    \cup {<<pair[1], pair[2]>> :
            pair \in {p \in Versions \X Versions : p[1].id # p[2].id}}

HistoryInit ==
  /\ issues = <<>>
  /\ userId = 1
  /\ historyStore = <<>>
  /\ historicalIssues = <<>>
  /\ combinedIssues = <<>>
  /\ sessions = 0
  /\ selectedCycle = NoCycle
  /\ allCycles = <<>>
  /\ now = 0
  /\ doraMetrics = NoResult
  /\ AnalysisFresh
  /\ pc = "fetch"
  /\ ClockIdle /\ StatIdle /\ AccIdle /\ RateIdle
  /\ LeadIdle /\ TvIdle /\ VelIdle /\ AddIdle /\ CacheIdle /\ RefreshIdle

\* DORADashboard.tsx line 441: setIssues(issuesData); an issue never comes
\* back older than it was saved
HistoryFetch ==
  /\ pc = "fetch"
  /\ sessions < MaxSessions
  /\ \E list \in SessionLists :
       /\ \A i \in 1..Len(list) : \A k \in 1..Len(historyStore) :
            historyStore[k].issue_id = list[i].id =>
              historyStore[k].updated_at <= list[i].updatedAt
       /\ issues' = list
  /\ sessions' = sessions + 1
  /\ historicalIssues' = <<>>
  /\ combinedIssues' = <<>>
  /\ pc' = "save"
  /\ UNCHANGED <<selectedCycle, allCycles, now, doraMetrics, userId, historyStore,
                 codeReviewAnalysis, estimationAnalysis, engCall, engResult,
                 clockVars, statVars, accVars, rateVars, leadVars, tvVars,
                 velVars, addVars, cacheVars, refreshVars>>

\* DORADashboard.tsx lines 444-466: the save, or its failure, which the
\* dashboard logs and passes over
HistorySave ==
  /\ pc = "save"
  /\ \/ historyStore' = saveIssuesHistory(userId, issues, historyStore)
     \/ historyStore' = historyStore
  /\ pc' = "load"
  /\ UNCHANGED <<doraVars, userId, historicalIssues, codeReviewAnalysis,
                 estimationAnalysis, engCall, engResult, clockVars, statVars,
                 accVars, rateVars, leadVars, tvVars, velVars, addVars, histVars,
                 cacheVars, refreshVars>>

\* DORADashboard.tsx line 475: await calculator.loadHistoricalData()
HistoryLoad ==
  /\ pc = "load"
  /\ \E failed \in BOOLEAN :
       historicalIssues' =
         loadHistoricalData(userId, historicalIssues, historyStore, failed)
  /\ pc' = "combine"
  /\ UNCHANGED <<doraVars, userId, historyStore, codeReviewAnalysis,
                 estimationAnalysis, engCall, engResult, clockVars, statVars,
                 accVars, rateVars, leadVars, tvVars, velVars, addVars, histVars,
                 cacheVars, refreshVars>>

\* the analyses build the combined sample
HistoryCombine ==
  /\ pc = "combine"
  /\ combinedIssues' = getAllCompletedIssuesWithEstimates(issues, historicalIssues)
  /\ pc' = "fetch"
  /\ UNCHANGED <<doraVars, analysisVars, sessions, clockVars, statVars, accVars,
                 rateVars, leadVars, tvVars, velVars, addVars, cacheVars,
                 refreshVars>>

SpecHistory ==
  HistoryInit
    /\ [][HistoryFetch \/ HistorySave \/ HistoryLoad \/ HistoryCombine]_vars

\* C26: the combined sample holds each issue id at most once.
C26_EachIssueOnce ==
  \A i \in 1..Len(combinedIssues) : \A j \in 1..Len(combinedIssues) :
    combinedIssues[i].id = combinedIssues[j].id => i = j

(***************************************************************************)
(* Specification SpecCache: calls of the cache manager for one user, team  *)
(* and cycle, interleaved at their awaits.  A row of cycle_data_cache is   *)
(*   [id, period, data, cached_at]                                         *)
(* where data stands for issues_data and metrics_data: the period it was   *)
(* saved for and the number of the call that saved it.                     *)
(***************************************************************************)
Periods == {"7d", "30d"}

NoRow == <<>>

NoData == [savedFor |-> "none", version |-> 0, cachedAt |-> 0]

\* a call at its start
NewCall(op, period) ==
  [op |-> op, period |-> period, pc |-> "called", cacheId |-> NoRow, now |-> 0,
   existing |-> NoRow, found |-> FALSE, result |-> NoData, fallback |-> FALSE,
   undisturbed |-> FALSE, afterClear |-> FALSE]

\* list({ where: { user_id, team_id, cycle_id, period }, limit: 1 }): the ids
\* the query may return, NoRow for an empty result
ExactMatch(table, period) ==
  IF \E row \in table : row.period = period
    THEN {row.id : row \in {r \in table : r.period = period}}
    ELSE {NoRow}

\* the variant of the fallback query that orders by cached_at ascending
FallbackMatchOldest(table) ==
  IF table = {} THEN {NoRow}
  ELSE {row.id : row \in {r \in table : \A q \in table : q.cached_at >= r.cached_at}}

\* lines 88-96: list({ where: { user_id, team_id, cycle_id },
\* orderBy: { cached_at: 'desc' }, limit: 1 })
FallbackMatch(table) ==
  IF table = {} THEN {NoRow}
  ELSE {row.id : row \in {r \in table : \A q \in table : q.cached_at <= r.cached_at}}

RowOf(table, id) == CHOOSE row \in table : row.id = id

\* lines 114-165: the result built from the cache entry
ResultOf(cacheEntry) ==
  [savedFor |-> cacheEntry.data.savedFor, version |-> cacheEntry.data.version,
   cachedAt |-> cacheEntry.cached_at]

SaveInFlight(calls, period) ==
  \E c \in 1..Len(calls) :
    calls[c].op = "save" /\ calls[c].period = period /\ calls[c].pc # "done"

CacheInit ==
  /\ cacheTable = {}
  /\ cacheCalls = <<>>
  /\ cacheClock = 0
  /\ sinceClear = [period \in Periods |-> FALSE]
  /\ pc = "run"
  /\ ClockIdle /\ StatIdle /\ AccIdle /\ RateIdle /\ DoraIdle /\ AnalysisIdle
  /\ LeadIdle /\ TvIdle /\ VelIdle /\ AddIdle /\ HistIdle /\ RefreshIdle

CacheOthersUnchanged ==
  UNCHANGED <<pc, clockVars, statVars, accVars, rateVars, doraVars, analysisVars,
              leadVars, tvVars, velVars, addVars, histVars, refreshVars>>

\* a millisecond passes
CacheTick ==
  /\ cacheClock < MaxCacheClock
  /\ cacheClock' = cacheClock + 1
  /\ UNCHANGED <<cacheTable, cacheCalls, sinceClear>>
  /\ CacheOthersUnchanged

\* saveToCache, lines 197-210: cacheId and now are taken, the list is awaited
SaveCall ==
  /\ Len(cacheCalls) < MaxCalls
  /\ \E period \in Periods :
       /\ cacheCalls' =
            Append([c \in 1..Len(cacheCalls) |->
                      IF cacheCalls[c].op = "clear" /\ cacheCalls[c].period = period
                           /\ cacheCalls[c].pc # "done"
                        THEN [cacheCalls[c] EXCEPT !.undisturbed = FALSE]
                        ELSE cacheCalls[c]],
                   [NewCall("save", period) EXCEPT
                      !.cacheId = <<period, cacheClock>>, !.now = cacheClock])
       /\ sinceClear' = [sinceClear EXCEPT ![period] = FALSE]
  /\ UNCHANGED <<cacheTable, cacheClock>>
  /\ CacheOthersUnchanged

\* saveToCache, lines 202-210: the list returns
SaveList ==
  /\ \E c \in 1..Len(cacheCalls) :
       /\ cacheCalls[c].op = "save" /\ cacheCalls[c].pc = "called"
       /\ \E id \in ExactMatch(cacheTable, cacheCalls[c].period) :
            cacheCalls' = [cacheCalls EXCEPT ![c].existing = id, ![c].pc = "listed"]
  /\ UNCHANGED <<cacheTable, cacheClock, sinceClear>>
  /\ CacheOthersUnchanged

\* saveToCache, lines 212-234: update of the entry found, which changes
\* nothing when the entry is gone, or create, which fails on an id in use
SaveWrite ==
  /\ \E c \in 1..Len(cacheCalls) :
       LET call == cacheCalls[c]
           cacheData == [period |-> call.period,
                         data |-> [savedFor |-> call.period, version |-> c],
                         cached_at |-> call.now]
       IN  /\ call.op = "save" /\ call.pc = "listed"
           /\ cacheTable' =
                IF call.existing # NoRow
                  THEN {IF row.id = call.existing
                          THEN [id |-> row.id] @@ cacheData ELSE row :
                        row \in cacheTable}
                ELSE IF \E row \in cacheTable : row.id = call.cacheId
                  THEN cacheTable
                ELSE cacheTable \cup {[id |-> call.cacheId] @@ cacheData}
           /\ cacheCalls' = [cacheCalls EXCEPT ![c].pc = "done"]
  /\ UNCHANGED <<cacheClock, sinceClear>>
  /\ CacheOthersUnchanged

\* clearCache, lines 307-317: the list returns; with no entry the call is over
ClearCall ==
  /\ Len(cacheCalls) < MaxCalls
  /\ \E period \in Periods : \E id \in ExactMatch(cacheTable, period) :
       LET quiet == ~SaveInFlight(cacheCalls, period)
       IN  /\ cacheCalls' =
                Append(cacheCalls,
                       [NewCall("clear", period) EXCEPT
                          !.existing = id, !.undisturbed = quiet,
                          !.pc = IF id = NoRow THEN "done" ELSE "listed"])
           /\ sinceClear' =
                IF id = NoRow THEN [sinceClear EXCEPT ![period] = quiet]
                ELSE sinceClear
  /\ UNCHANGED <<cacheTable, cacheClock>>
  /\ CacheOthersUnchanged

\* clearCache, line 318: delete(cached[0].id)
ClearDelete ==
  /\ \E c \in 1..Len(cacheCalls) :
       /\ cacheCalls[c].op = "clear" /\ cacheCalls[c].pc = "listed"
       /\ cacheTable' = {row \in cacheTable : row.id # cacheCalls[c].existing}
       /\ cacheCalls' = [cacheCalls EXCEPT ![c].pc = "done"]
       /\ sinceClear' =
            [sinceClear EXCEPT ![cacheCalls[c].period] = cacheCalls[c].undisturbed]
  /\ UNCHANGED cacheClock
  /\ CacheOthersUnchanged

\* hasDataInCache, lines 40-50
HasCall ==
  /\ Len(cacheCalls) < MaxCalls
  /\ \E period \in Periods :
       cacheCalls' =
         Append(cacheCalls,
                [NewCall("has", period) EXCEPT
                   !.found = (ExactMatch(cacheTable, period) # {NoRow}),
                   !.afterClear = sinceClear[period],
                   !.pc = "done"])
  /\ UNCHANGED <<cacheTable, cacheClock, sinceClear>>
  /\ CacheOthersUnchanged

\* getCachedData, lines 70-86 and 114-174: the exact match
GetCall ==
  /\ Len(cacheCalls) < MaxCalls
  /\ \E period \in Periods : \E id \in ExactMatch(cacheTable, period) :
       cacheCalls' =
         Append(cacheCalls,
                IF id = NoRow
                  THEN [NewCall("get", period) EXCEPT !.pc = "fallback"]
                  ELSE [NewCall("get", period) EXCEPT
                          !.result = ResultOf(RowOf(cacheTable, id)),
                          !.pc = "done"])
  /\ UNCHANGED <<cacheTable, cacheClock, sinceClear>>
  /\ CacheOthersUnchanged

\* getCachedData, lines 86-112 and 114-174: the fallback query
GetFallback ==
  /\ \E c \in 1..Len(cacheCalls) :
       /\ cacheCalls[c].op = "get" /\ cacheCalls[c].pc = "fallback"
       /\ \E id \in FallbackMatch(cacheTable) :
            cacheCalls' =
              [cacheCalls EXCEPT
                 ![c].fallback = TRUE,
                 ![c].existing = id,
                 ![c].now = IF cacheTable = {} THEN 0
                            ELSE CHOOSE t \in {row.cached_at : row \in cacheTable} :
                                   \A row \in cacheTable : row.cached_at <= t,
                 ![c].result = IF id = NoRow THEN NoData
                               ELSE ResultOf(RowOf(cacheTable, id)),
                 ![c].pc = "done"]
  /\ UNCHANGED <<cacheTable, cacheClock, sinceClear>>
  /\ CacheOthersUnchanged

SpecCache ==
  CacheInit
    /\ [][CacheTick \/ SaveCall \/ SaveList \/ SaveWrite \/ ClearCall
            \/ ClearDelete \/ HasCall \/ GetCall \/ GetFallback]_vars

\* C28: the table holds at most one entry for each key, and a hasDataInCache
\* that runs after a clearCache of its key has completed, with no saveToCache
\* of the key in flight since that clearCache started, returns false.
C28_OneEntryPerKeyAndClearedMeansAbsent ==
  /\ \A row \in cacheTable : \A other \in cacheTable :
       row.period = other.period => row = other
  /\ \A c \in 1..Len(cacheCalls) :
       (cacheCalls[c].op = "has" /\ cacheCalls[c].afterClear) => ~cacheCalls[c].found

RefreshKeys == {"team", "cycle"}

NoTimer == 0

\* the variant of clearAutoRefresh that forgets the timer without clearing it
clearAutoRefreshForgetOnly(timers, active, key) ==
  IF timers[key] # NoTimer
    THEN [refreshTimers |-> [timers EXCEPT ![key] = NoTimer], active |-> active]
    ELSE [refreshTimers |-> timers, active |-> active]

\* lines 416-422: the map and the active timers after clearAutoRefresh(key)
clearAutoRefresh(timers, active, key) ==
  IF timers[key] # NoTimer
    THEN [refreshTimers |-> [timers EXCEPT ![key] = NoTimer],
          active |-> active \ {timers[key]}]
    ELSE [refreshTimers |-> timers, active |-> active]

\* lines 391-411: the map and the active timers after setupAutoRefresh(key,
\* refreshCallback, config), where timer is what setInterval returns
setupAutoRefresh(timers, active, key, enableAutoRefresh, timer) ==
  IF ~enableAutoRefresh THEN [refreshTimers |-> timers, active |-> active]
  ELSE LET cleared == clearAutoRefresh(timers, active, key)
       IN  [refreshTimers |-> [cleared.refreshTimers EXCEPT ![key] = timer],
            active |-> cleared.active \cup {timer}]

\* lines 427-430: the map and the active timers after clearAllAutoRefresh()
clearAllAutoRefresh(timers, active) ==
  [refreshTimers |-> [key \in RefreshKeys |-> NoTimer],
   active |-> active \ {timers[key] : key \in RefreshKeys}]

RefreshInit ==
  /\ refreshTimers = [key \in RefreshKeys |-> NoTimer]
  /\ activeTimers = {}
  /\ timerKey = [timer \in 1..(MaxTimers + 1) |-> "none"]
  /\ timerCount = 0
  /\ clearedTimers = {}
  /\ ticks = [timer \in 1..(MaxTimers + 1) |-> 0]
  /\ pending = [timer \in 1..(MaxTimers + 1) |-> 0]
  /\ rejections = [timer \in 1..(MaxTimers + 1) |-> 0]
  /\ lastTick = NoResult
  /\ pc = "run"
  /\ ClockIdle /\ StatIdle /\ AccIdle /\ RateIdle /\ DoraIdle /\ AnalysisIdle
  /\ LeadIdle /\ TvIdle /\ VelIdle /\ AddIdle /\ HistIdle /\ CacheIdle

RefreshOthersUnchanged ==
  UNCHANGED <<pc, clockVars, statVars, accVars, rateVars, doraVars, analysisVars,
              leadVars, tvVars, velVars, addVars, histVars, cacheVars>>

\* setupAutoRefresh(key, refreshCallback, config); with auto refresh disabled
\* line 396 returns at once
RefreshSetup ==
  /\ \E key \in RefreshKeys : \E enableAutoRefresh \in BOOLEAN :
       LET timer == IF enableAutoRefresh THEN timerCount + 1 ELSE NoTimer
           after == setupAutoRefresh(refreshTimers, activeTimers, key,
                                     enableAutoRefresh, timer)
       IN  /\ enableAutoRefresh => timerCount < MaxTimers
           /\ refreshTimers' = after.refreshTimers
           /\ activeTimers' = after.active
           /\ timerKey' = IF enableAutoRefresh
                            THEN [timerKey EXCEPT ![timer] = key] ELSE timerKey
           /\ timerCount' = IF enableAutoRefresh THEN timer ELSE timerCount
           /\ clearedTimers' =
                clearedTimers \cup ((activeTimers \cup {timer}) \ (after.active \cup {NoTimer}))
  /\ UNCHANGED <<ticks, pending, rejections, lastTick>>
  /\ RefreshOthersUnchanged

\* clearAutoRefresh(key)
RefreshClear ==
  /\ \E key \in RefreshKeys :
       LET after == clearAutoRefresh(refreshTimers, activeTimers, key)
       IN  /\ refreshTimers' = after.refreshTimers
           /\ activeTimers' = after.active
           /\ clearedTimers' = clearedTimers \cup (activeTimers \ after.active)
  /\ UNCHANGED <<timerKey, timerCount, ticks, pending, rejections, lastTick>>
  /\ RefreshOthersUnchanged

\* clearAllAutoRefresh()
RefreshClearAll ==
  /\ LET after == clearAllAutoRefresh(refreshTimers, activeTimers)
     IN  /\ refreshTimers' = after.refreshTimers
         /\ activeTimers' = after.active
         /\ clearedTimers' = clearedTimers \cup (activeTimers \ after.active)
  /\ UNCHANGED <<timerKey, timerCount, ticks, pending, rejections, lastTick>>
  /\ RefreshOthersUnchanged

\* lines 402-408: an active interval fires and its callback starts, whether
\* or not earlier callbacks of the timer have settled
RefreshTick ==
  /\ \E timer \in activeTimers :
       /\ ticks[timer] < MaxTicks
       /\ ticks' = [ticks EXCEPT ![timer] = @ + 1]
       /\ pending' = [pending EXCEPT ![timer] = @ + 1]
       /\ lastTick' = [timer |-> timer, key |-> timerKey[timer],
                       recorded |-> refreshTimers[timerKey[timer]] = timer,
                       afterRejection |-> rejections[timer] > 0]
  /\ UNCHANGED <<refreshTimers, activeTimers, timerKey, timerCount, clearedTimers,
                 rejections>>
  /\ RefreshOthersUnchanged

\* lines 403-407: await refreshCallback() settles; a rejection is caught and
\* logged
RefreshSettle ==
  /\ \E timer \in 1..timerCount : \E rejected \in BOOLEAN :
       /\ pending[timer] > 0
       /\ pending' = [pending EXCEPT ![timer] = @ - 1]
       /\ rejections' = [rejections EXCEPT ![timer] = IF rejected THEN @ + 1 ELSE @]
  /\ UNCHANGED <<refreshTimers, activeTimers, timerKey, timerCount, clearedTimers,
                 ticks, lastTick>>
  /\ RefreshOthersUnchanged

SpecRefresh ==
  RefreshInit
    /\ [][RefreshSetup \/ RefreshClear \/ RefreshClearAll \/ RefreshTick
            \/ RefreshSettle]_vars

\* C30: a key has at most one active timer; every active timer is the one
\* recorded in refreshTimers for its key, so that a key without entry, as
\* after clearAutoRefresh or clearAllAutoRefresh, has no timer to start a
\* callback, and every callback started was started by the recorded timer of
\* its key; a timer stops only by being cleared, not by a rejection.
C30_OneRecordedTimerPerKey ==
  /\ \A a \in activeTimers : \A b \in activeTimers :
       timerKey[a] = timerKey[b] => a = b
  /\ \A a \in activeTimers : refreshTimers[timerKey[a]] = a
  /\ \A key \in RefreshKeys :
       refreshTimers[key] = NoTimer => ~\E a \in activeTimers : timerKey[a] = key
  /\ lastTick # NoResult => lastTick.recorded
  /\ \A timer \in 1..timerCount :
       (timer \in activeTimers) # (timer \in clearedTimers)

\* a key registered again, the earlier timer cleared, and a callback of the
\* new timer started after an earlier one of its callbacks had rejected
C30_Witness ==
  /\ lastTick # NoResult
  /\ lastTick.afterRejection
  /\ lastTick.timer \in activeTimers
  /\ \E earlier \in clearedTimers :
       /\ timerKey[earlier] = lastTick.key
       /\ ticks[earlier] > 0

(***************************************************************************)
(* Specification SpecRating: the rating of a deployment frequency          *)
(***************************************************************************)
RatingInit ==
  /\ \/ rtCycleBound = TRUE /\ rtValue \in {Q(c, 1) : c \in 0..MaxRatedCount}
     \/ rtCycleBound = FALSE /\ rtValue \in {Q(k, 30) : k \in 0..(30 + 1)}
  /\ rtRating = "Low"
  /\ pc = "call"
  /\ ClockIdle /\ StatIdle /\ AccIdle /\ DoraIdle /\ AnalysisIdle /\ LaterIdle

RatingCalculate ==
  /\ pc = "call"
  /\ rtRating' = DeploymentFrequencyRating(rtCycleBound, rtValue)
  /\ pc' = "done"
  /\ UNCHANGED <<rtCycleBound, rtValue, clockVars, statVars, accVars, doraVars,
                 analysisVars,
                 laterVars>>

SpecRating == RatingInit /\ [][RatingCalculate]_vars

\* C10: the tiers have strict lower bounds.  Cycle-bound, a count c is Elite
\* iff c > 10, High iff 5 < c <= 10, Medium iff 1 < c <= 5, Low iff c <= 1;
\* day-rate, a rate r = k / 30 is Elite iff r > 1, High iff 0.2 < r <= 1,
\* Medium iff 0.1 < r <= 0.2, Low otherwise.
C10_StrictTierBounds ==
  pc = "done" =>
    LET v == rtValue.n
    IN  IF rtCycleBound
          THEN /\ (rtRating = "Elite")  <=> (v > 10)
               /\ (rtRating = "High")   <=> (5 < v /\ v <= 10)
               /\ (rtRating = "Medium") <=> (1 < v /\ v <= 5)
               /\ (rtRating = "Low")    <=> (v <= 1)
          ELSE /\ (rtRating = "Elite")  <=> (v > 30)
               /\ (rtRating = "High")   <=> (6 < v /\ v <= 30)
               /\ (rtRating = "Medium") <=> (3 < v /\ v <= 6)
               /\ (rtRating = "Low")    <=> (v <= 3)

====
